---- MODULE Spec2Model ----
(***************************************************************************)
(* Model of the Matiks monitor: the relevance filter, the source           *)
(* normalizers, the sentiment scorer and the aggregation cycle of          *)
(* src/aggregator.py and src/sentiment.py.                                 *)
(*                                                                         *)
(* A Python str is a sequence of one-character strings, so that lower(),   *)
(* strip(), the `in` substring test, count(), slicing and the CSV          *)
(* conversions are computed character by character, as the code does.      *)
(***************************************************************************)
EXTENDS Integers, Sequences, FiniteSets, TLC

\* ------------------------------------------------------------------ values

\* Python None and float('nan'): one-element sequences that are no str.
NONE == <<"<None>">>
NaN == <<"<nan>">>

IsMissing(v) == v = NONE \/ v = NaN

\* ----------------------------------------------------------------- strings

UpperChars == <<"A","B","C","D","E","F","G","H","I","J","K","L","M",
                "N","O","P","Q","R","S","T","U","V","W","X","Y","Z">>
LowerChars == <<"a","b","c","d","e","f","g","h","i","j","k","l","m",
                "n","o","p","q","r","s","t","u","v","w","x","y","z">>

LowerChar(c) ==
    IF \E i \in 1..Len(UpperChars) : UpperChars[i] = c
    THEN LowerChars[CHOOSE i \in 1..Len(UpperChars) : UpperChars[i] = c]
    ELSE c

\* str.lower()
Lower(s) == [i \in 1..Len(s) |-> LowerChar(s[i])]

\* `p in s` for two str
Contains(s, p) ==
    \E i \in 1..(Len(s) - Len(p) + 1) : \A j \in 1..Len(p) : s[i + j - 1] = p[j]

\* any(p in s for p in patterns)
ContainsAny(s, patterns) ==
    \E k \in 1..Len(patterns) : Contains(s, patterns[k])

\* s.startswith(p)
StartsWith(s, p) == Len(s) >= Len(p) /\ \A j \in 1..Len(p) : s[j] = p[j]

\* str.count(p): occurrences found left to right, none overlapping.
RECURSIVE CountFrom(_, _, _)
CountFrom(s, p, from) ==
    IF from + Len(p) - 1 > Len(s) THEN 0
    ELSE IF \A j \in 1..Len(p) : s[from + j - 1] = p[j]
         THEN 1 + CountFrom(s, p, from + Len(p))
         ELSE CountFrom(s, p, from + 1)

Count(s, p) == CountFrom(s, p, 1)

\* sum(1 for p in patterns if p in s)
RECURSIVE CountMatching(_, _, _)
CountMatching(s, patterns, k) ==
    IF k > Len(patterns) THEN 0
    ELSE (IF Contains(s, patterns[k]) THEN 1 ELSE 0) + CountMatching(s, patterns, k + 1)

Whitespace == {" ", "\n", "\t", "\r"}

\* str.strip()
RECURSIVE LStrip(_)
LStrip(s) == IF s # <<>> /\ Head(s) \in Whitespace THEN LStrip(Tail(s)) ELSE s

RECURSIVE RStrip(_)
RStrip(s) ==
    IF s # <<>> /\ s[Len(s)] \in Whitespace THEN RStrip(SubSeq(s, 1, Len(s) - 1)) ELSE s

Strip(s) == RStrip(LStrip(s))

\* s[:n]
Slice(s, n) == SubSeq(s, 1, IF Len(s) < n THEN Len(s) ELSE n)

\* ------------------------------------------------------- relevance filter

brand_token == <<"m","a","t","i","k","s">>

exclude_patterns == <<
    <<"m","a","t","i","k"," ","t","u","w","i","n","g">>,  \* 'matik tuwing'
    <<"m","a","t","i","k"," ","n","a">>,  \* 'matik na'
    <<"m","a","t","i","k"," ","a","n","g">>,  \* 'matik ang'
    <<"m","a","t","i","k"," ","s","a">>,  \* 'matik sa'
    <<"m","a","t","i","k"," ","m","o">>,  \* 'matik mo'
    <<"m","a","t","i","k"," ","k","o">>,  \* 'matik ko'
    <<"m","a","t","h","e","m","a","t","i","c","s">>,  \* 'mathematics'
    <<"m","a","t","h"," ","p","r","o","b","l","e","m">>,  \* 'math problem'
    <<"m","a","t","h"," ","h","e","l","p">> >>  \* 'math help'

include_patterns == <<
    <<"m","a","t","i","k","s"," ","a","p","p">>,  \* 'matiks app'
    <<"m","a","t","i","k","s"," ","a","p","p","l","i","c","a","t","i","o","n">>,  \* 'matiks application'
    <<"m","a","t","i","k","s"," ","g","a","m","e">>,  \* 'matiks game'
    <<"m","a","t","i","k","s"," ","m","a","t","h">>,  \* 'matiks math'
    <<"m","a","t","i","k","s"," ","r","e","v","i","e","w">>,  \* 'matiks review'
    <<"m","a","t","i","k","s"," ","i","n","t","e","r","n","s","h","i","p">>,  \* 'matiks internship'
    <<"m","a","t","i","k","s"," ","c","o","m","p","a","n","y">>,  \* 'matiks company'
    <<"m","a","t","i","k","s"," ","t","e","a","m">>,  \* 'matiks team'
    <<"p","l","a","y"," ","m","a","t","i","k","s">>,  \* 'play matiks'
    <<"u","s","i","n","g"," ","m","a","t","i","k","s">>,  \* 'using matiks'
    <<"m","a","t","i","k","s"," ","d","a","i","l","y">>,  \* 'matiks daily'
    <<"m","a","t","i","k","s"," ","p","r","a","c","t","i","c","e">>,  \* 'matiks practice'
    <<"m","a","t","i","k","s"," ","l","e","a","r","n","i","n","g">>,  \* 'matiks learning'
    <<"m","a","t","i","k","s"," ","e","d","u","c","a","t","i","o","n">> >>  \* 'matiks education'

app_words == <<
    <<"a","p","p">>,  \* 'app'
    <<"a","p","p","l","i","c","a","t","i","o","n">>,  \* 'application'
    <<"g","a","m","e">>,  \* 'game'
    <<"p","l","a","y">>,  \* 'play'
    <<"d","o","w","n","l","o","a","d">>,  \* 'download'
    <<"i","n","s","t","a","l","l">>,  \* 'install'
    <<"r","e","v","i","e","w">>,  \* 'review'
    <<"r","a","t","i","n","g">>,  \* 'rating'
    <<"u","p","d","a","t","e">>,  \* 'update'
    <<"v","e","r","s","i","o","n">> >>  \* 'version'

company_words == <<
    <<"c","o","m","p","a","n","y">>,  \* 'company'
    <<"t","e","a","m">>,  \* 'team'
    <<"i","n","t","e","r","n","s","h","i","p">>,  \* 'internship'
    <<"j","o","b">>,  \* 'job'
    <<"w","o","r","k">>,  \* 'work'
    <<"c","a","r","e","e","r">>,  \* 'career'
    <<"e","d","u","c","a","t","i","o","n">>,  \* 'education'
    <<"l","e","a","r","n","i","n","g">>,  \* 'learning'
    <<"p","r","a","c","t","i","c","e">> >>  \* 'practice'

\* is_matiks_relevant without its first test, the brand token.
is_matiks_relevant_no_brand_test(text) ==
    IF text = NONE \/ text = <<>> \/ text = NaN THEN FALSE
    ELSE LET text_lower == Lower(text) IN
         IF ContainsAny(text_lower, exclude_patterns) THEN FALSE
         ELSE IF ContainsAny(text_lower, include_patterns) THEN TRUE
         ELSE IF Count(text_lower, brand_token) > 1 THEN TRUE
         ELSE IF ContainsAny(text_lower, app_words) THEN TRUE
         ELSE IF ContainsAny(text_lower, company_words) THEN TRUE
         ELSE FALSE

\* is_matiks_relevant without the loop over include_patterns.
is_matiks_relevant_no_include(text) ==
    IF text = NONE \/ text = <<>> \/ text = NaN THEN FALSE
    ELSE LET text_lower == Lower(text) IN
         IF ~Contains(text_lower, brand_token) THEN FALSE
         ELSE IF ContainsAny(text_lower, exclude_patterns) THEN FALSE
         ELSE IF Count(text_lower, brand_token) > 1 THEN TRUE
         ELSE IF ContainsAny(text_lower, app_words) THEN TRUE
         ELSE IF ContainsAny(text_lower, company_words) THEN TRUE
         ELSE FALSE

\* is_matiks_relevant with the include loop moved before the exclude loop.
is_matiks_relevant_include_first(text) ==
    IF text = NONE \/ text = <<>> \/ text = NaN THEN FALSE
    ELSE LET text_lower == Lower(text) IN
         IF ~Contains(text_lower, brand_token) THEN FALSE
         ELSE IF ContainsAny(text_lower, include_patterns) THEN TRUE
         ELSE IF ContainsAny(text_lower, exclude_patterns) THEN FALSE
         ELSE IF Count(text_lower, brand_token) > 1 THEN TRUE
         ELSE IF ContainsAny(text_lower, app_words) THEN TRUE
         ELSE IF ContainsAny(text_lower, company_words) THEN TRUE
         ELSE FALSE

\* is_matiks_relevant(text): `not text or pd.isna(text)` first, then the
\* ordered tests on str(text).lower().
is_matiks_relevant(text) ==
    IF text = NONE \/ text = <<>> \/ text = NaN THEN FALSE
    ELSE LET text_lower == Lower(text) IN
         IF ~Contains(text_lower, brand_token) THEN FALSE
         ELSE IF ContainsAny(text_lower, exclude_patterns) THEN FALSE
         ELSE IF ContainsAny(text_lower, include_patterns) THEN TRUE
         ELSE IF Count(text_lower, brand_token) > 1 THEN TRUE
         ELSE IF ContainsAny(text_lower, app_words) THEN TRUE
         ELSE IF ContainsAny(text_lower, company_words) THEN TRUE
         ELSE FALSE

\* ------------------------------------------------------------ timestamps

\* A pandas Timestamp in UTC, as whole seconds since the epoch plus
\* nanoseconds; NaT (which None also becomes in a datetime column) has no
\* instant.
NaT == [nat |-> TRUE, sec |-> 0, ns |-> 0]

Instant(sec, ns) == [nat |-> FALSE, sec |-> sec, ns |-> ns]

\* a is strictly later than b (both instants)
Later(a, b) == a.sec > b.sec \/ (a.sec = b.sec /\ a.ns > b.ns)

Digits == <<"0","1","2","3","4","5","6","7","8","9">>

\* str(n) for an int n >= 0
RECURSIVE Decimal(_)
Decimal(n) ==
    IF n < 10 THEN <<Digits[n + 1]>>
    ELSE Decimal(n \div 10) \o <<Digits[(n % 10) + 1]>>

\* The raw value of a timestamp column: None, NaN, a number or a str.
RawNone == [kind |-> "none", num |-> 0, str |-> <<>>]
RawNaN == [kind |-> "nan", num |-> 0, str |-> <<>>]
RawNum(n) == [kind |-> "num", num |-> n, str |-> <<>>]
RawStr(s) == [kind |-> "str", num |-> 0, str |-> s]

\* The threshold above which _to_datetime_utc reads a number as seconds.
UnixSecondsThreshold == 10000

SecondsPerDay == 86400

\* pd.to_datetime(str, utc=True, errors="coerce"): the dates "1970-01-0d" are
\* the date strings of this model; every other str is unparseable.
ParseDate(s) ==
    IF \E d \in 1..9 : s = <<"1","9","7","0","-","0","1","-","0">> \o <<Digits[d + 1]>>
    THEN Instant(((CHOOSE d \in 1..9 : s = <<"1","9","7","0","-","0","1","-","0">> \o <<Digits[d + 1]>>) - 1)
                 * SecondsPerDay, 0)
    ELSE NaT

\* _to_datetime_utc reading a number as seconds from the threshold on
to_datetime_utc_from_threshold(val) ==
    IF val.kind = "none" THEN NaT
    ELSE IF val.kind = "nan" THEN NaT
    ELSE IF val.kind = "num" /\ val.num >= UnixSecondsThreshold
         THEN Instant(val.num, 0)
    ELSE IF val.kind = "num"
         THEN Instant(0, val.num)
    ELSE ParseDate(val.str)

\* _to_datetime_utc(val)
to_datetime_utc(val) ==
    IF val.kind = "none" THEN NaT
    ELSE IF val.kind = "nan" THEN NaT
    ELSE IF val.kind = "num" /\ val.num > UnixSecondsThreshold
         THEN Instant(val.num, 0)                  \* unit="s"
    ELSE IF val.kind = "num"
         THEN Instant(0, val.num)                  \* a bare number is nanoseconds
    ELSE ParseDate(val.str)

\* ------------------------------------------------------------ canonical rows

\* A missing number (None or NaN in a numeric column).
NoNumber == -1

\* fillna(v) on one value
FillNa(x, v) == IF IsMissing(x) THEN v ELSE x

FillNaNumber(n, v) == IF n = NoNumber THEN v ELSE n

\* A row of a normalized frame: the eleven canonical columns; the three
\* sentiment columns are absent (label "unscored") until scoring has run.
CanonicalRow(platform, type, author, url, timestamp, likes, comments, shares, txt, rating, app_version) ==
    [platform |-> platform, type |-> type, author |-> author, url |-> url,
     timestamp |-> timestamp, engagement_likes |-> likes,
     engagement_comments |-> comments, engagement_shares |-> shares,
     text |-> txt, rating |-> rating, app_version |-> app_version,
     sentiment_polarity |-> 0, sentiment_subjectivity |-> 0,
     sentiment_label |-> "unscored"]

\* df[mask]: the rows whose mask entry is TRUE, in order
RECURSIVE SelectRows(_, _)
SelectRows(rows, mask) ==
    IF rows = <<>> THEN <<>>
    ELSE (IF Head(mask) THEN <<Head(rows)>> ELSE <<>>)
         \o SelectRows(Tail(rows), Tail(mask))

\* ---------------------------------------------------------- normalizers

\* A fetched payload is None, or a frame [columns, rows]: the set of column
\* names and the rows, each a record over all the columns the source can have
\* (the fields of absent columns are not read). df.get(col, "") of an absent
\* column is the str "", which has no fillna/apply: the normalizer raises.
NoFrame == [none |-> TRUE, columns |-> {}, rows |-> <<>>]

Frame(columns, rows) == [none |-> FALSE, columns |-> columns, rows |-> rows]

\* `df is None or df.empty`
IsEmptyFrame(df) == df.none \/ df.rows = <<>> \/ df.columns = {}

\* What a normalizer gives: the rows, or raised.
Normalized(rows) == [raised |-> FALSE, rows |-> rows]
NormalizerRaised == [raised |-> TRUE, rows |-> <<>>]

PlatformReddit == <<"R","e","d","d","i","t">>
PlatformTwitter == <<"T","w","i","t","t","e","r","/","X">>
PlatformLinkedIn == <<"L","i","n","k","e","d","I","n">>
PlatformGooglePlay == <<"G","o","o","g","l","e"," ","P","l","a","y">>
PlatformAppleStore == <<"A","p","p","l","e"," ","A","p","p"," ","S","t","o","r","e">>
TypeSocial == <<"s","o","c","i","a","l">>
TypeReview == <<"r","e","v","i","e","w">>

\* title + "\n" + content with nothing stripped
RedditTextUnstripped(df, r) ==
    (IF "title" \in df.columns THEN FillNa(r.title, <<>>) ELSE <<>>)
    \o <<"\n">>
    \o (IF "content" \in df.columns THEN FillNa(r.content, <<>>) ELSE <<>>)

\* text = (title + "\n" + content).str.strip(), an absent column being ""
RedditText(df, r) ==
    Strip((IF "title" \in df.columns THEN FillNa(r.title, <<>>) ELSE <<>>)
          \o <<"\n">>
          \o (IF "content" \in df.columns THEN FillNa(r.content, <<>>) ELSE <<>>))

normalize_reddit(df) ==
    IF IsEmptyFrame(df) THEN Normalized(<<>>)
    ELSE IF ~({"title", "content"} \cap df.columns # {}) THEN NormalizerRaised
    ELSE LET relevant_mask == [i \in 1..Len(df.rows) |->
                                is_matiks_relevant(RedditText(df, df.rows[i]))]
             kept == SelectRows(df.rows, relevant_mask)
         IN  IF kept = <<>> THEN Normalized(<<>>)
             ELSE IF ~({"author", "url", "created_utc", "score", "num_comments"}
                       \subseteq df.columns) THEN NormalizerRaised
             ELSE Normalized([i \in 1..Len(kept) |->
                    CanonicalRow(PlatformReddit, TypeSocial,
                                 FillNa(kept[i].author, <<>>),
                                 FillNa(kept[i].url, <<>>),
                                 to_datetime_utc(kept[i].created_utc),
                                 FillNaNumber(kept[i].score, 0),
                                 FillNaNumber(kept[i].num_comments, 0),
                                 0,
                                 RedditText(df, kept[i]),
                                 <<>>, <<>>)])

\* normalize_twitter taking the text from the frame as it was before the filter
normalize_twitter_text_unfiltered(df) ==
    IF IsEmptyFrame(df) THEN Normalized(<<>>)
    ELSE IF "content" \notin df.columns THEN NormalizerRaised
    ELSE LET relevant_mask == [i \in 1..Len(df.rows) |->
                                is_matiks_relevant(FillNa(df.rows[i].content, <<>>))]
             kept == SelectRows(df.rows, relevant_mask)
         IN  IF kept = <<>> THEN Normalized(<<>>)
             ELSE IF ~({"username", "url", "date", "likeCount", "replyCount",
                        "retweetCount"} \subseteq df.columns) THEN NormalizerRaised
             ELSE Normalized([i \in 1..Len(kept) |->
                    CanonicalRow(PlatformTwitter, TypeSocial,
                                 FillNa(kept[i].username, <<>>),
                                 FillNa(kept[i].url, <<>>),
                                 to_datetime_utc(kept[i].date),
                                 FillNaNumber(kept[i].likeCount, 0),
                                 FillNaNumber(kept[i].replyCount, 0),
                                 FillNaNumber(kept[i].retweetCount, 0),
                                 FillNa(df.rows[i].content, <<>>),
                                 <<>>, <<>>)])

normalize_twitter(df) ==
    IF IsEmptyFrame(df) THEN Normalized(<<>>)
    ELSE IF "content" \notin df.columns THEN NormalizerRaised
    ELSE LET relevant_mask == [i \in 1..Len(df.rows) |->
                                is_matiks_relevant(FillNa(df.rows[i].content, <<>>))]
             kept == SelectRows(df.rows, relevant_mask)
         IN  IF kept = <<>> THEN Normalized(<<>>)
             ELSE IF ~({"username", "url", "date", "likeCount", "replyCount",
                        "retweetCount"} \subseteq df.columns) THEN NormalizerRaised
             ELSE Normalized([i \in 1..Len(kept) |->
                    CanonicalRow(PlatformTwitter, TypeSocial,
                                 FillNa(kept[i].username, <<>>),
                                 FillNa(kept[i].url, <<>>),
                                 to_datetime_utc(kept[i].date),
                                 FillNaNumber(kept[i].likeCount, 0),
                                 FillNaNumber(kept[i].replyCount, 0),
                                 FillNaNumber(kept[i].retweetCount, 0),
                                 FillNa(kept[i].content, <<>>),
                                 <<>>, <<>>)])

LinkedInPlaceholder == <<"h","t","t","p","s",":","/","/","w","w","w",".","l","i","n","k","e","d","i","n",".","c","o","m","/">>

\* The length above which clean_url replaces a URL.
MaxUrlLen == 100

\* clean_url without its rule for long URLs
clean_url_without_length_rule(url) ==
    IF IsMissing(url) \/ url = <<>> THEN <<>>
    ELSE IF Contains(url, <<"d","u","c","k","d","u","c","k","g","o",".","c","o","m">>) THEN LinkedInPlaceholder
    ELSE url

\* clean_url with the rule for long URLs ahead of the one for LinkedIn URLs
clean_url_length_first(url) ==
    IF IsMissing(url) \/ url = <<>> THEN <<>>
    ELSE IF Contains(url, <<"d","u","c","k","d","u","c","k","g","o",".","c","o","m">>) THEN LinkedInPlaceholder
    ELSE IF Len(url) > MaxUrlLen THEN LinkedInPlaceholder
    ELSE url

\* normalize_linkedin.clean_url, applied to the url column after fillna("")
clean_url(url) ==
    IF IsMissing(url) \/ url = <<>> THEN <<>>
    ELSE IF Contains(url, <<"d","u","c","k","d","u","c","k","g","o",".","c","o","m">>) THEN LinkedInPlaceholder
    ELSE IF StartsWith(url, <<"h","t","t","p","s",":","/","/","w","w","w",".","l","i","n","k","e","d","i","n",".","c","o","m">>) THEN url
    ELSE IF Len(url) > MaxUrlLen THEN LinkedInPlaceholder
    ELSE url

normalize_linkedin(df) ==
    IF IsEmptyFrame(df) THEN Normalized(<<>>)
    ELSE IF "content" \notin df.columns THEN NormalizerRaised
    ELSE LET relevant_mask == [i \in 1..Len(df.rows) |->
                                is_matiks_relevant(FillNa(df.rows[i].content, <<>>))]
             kept == SelectRows(df.rows, relevant_mask)
         IN  IF kept = <<>> THEN Normalized(<<>>)
             ELSE IF ~({"url", "author", "timestamp", "engagement_likes",
                        "engagement_comments"} \subseteq df.columns)
                  THEN NormalizerRaised
             ELSE Normalized([i \in 1..Len(kept) |->
                    CanonicalRow(PlatformLinkedIn, TypeSocial,
                                 FillNa(kept[i].author, <<>>),
                                 clean_url(FillNa(kept[i].url, <<>>)),
                                 to_datetime_utc(kept[i].timestamp),
                                 FillNaNumber(kept[i].engagement_likes, 0),
                                 FillNaNumber(kept[i].engagement_comments, 0),
                                 0,
                                 FillNa(kept[i].content, <<>>),
                                 <<>>, <<>>)])

\* The review normalizers, were they to map thumbsUpCount to engagement_likes
NormalizeReviewsWithLikes(df, platform) ==
    IF IsEmptyFrame(df) THEN Normalized(<<>>)
    ELSE IF ~({"author", "date", "review_text", "rating", "version"}
              \subseteq df.columns) THEN NormalizerRaised
    ELSE Normalized([i \in 1..Len(df.rows) |->
           CanonicalRow(platform, TypeReview,
                        FillNa(df.rows[i].author, <<>>),
                        <<>>,
                        to_datetime_utc(df.rows[i].date),
                        IF "thumbsUpCount" \in df.columns
                        THEN FillNaNumber(df.rows[i].thumbsUpCount, 0) ELSE 0,
                        0, 0,
                        FillNa(df.rows[i].review_text, <<>>),
                        FillNa(df.rows[i].rating, <<>>),
                        FillNa(df.rows[i].version, <<>>))])

\* normalize_google_play and normalize_apple_store differ in the platform only.
NormalizeReviews(df, platform) ==
    IF IsEmptyFrame(df) THEN Normalized(<<>>)
    ELSE IF ~({"author", "date", "review_text", "rating", "version"}
              \subseteq df.columns) THEN NormalizerRaised
    ELSE Normalized([i \in 1..Len(df.rows) |->
           CanonicalRow(platform, TypeReview,
                        FillNa(df.rows[i].author, <<>>),
                        <<>>,
                        to_datetime_utc(df.rows[i].date),
                        0, 0, 0,
                        FillNa(df.rows[i].review_text, <<>>),
                        FillNa(df.rows[i].rating, <<>>),
                        FillNa(df.rows[i].version, <<>>))])

normalize_google_play(df) == NormalizeReviews(df, PlatformGooglePlay)

normalize_apple_store(df) == NormalizeReviews(df, PlatformAppleStore)

\* ------------------------------------------------------ sentiment scorer

\* Polarity and subjectivity are in hundredths: 0.05 is 5, 1.0 is 100.

\* _safe_text(val) without the strip
safe_text_unstripped(val) == IF IsMissing(val) THEN <<>> ELSE val

\* _safe_text(val)
safe_text(val) == IF IsMissing(val) THEN <<>> ELSE Strip(val)

hindi_positive_words == <<
    <<"b","a","h","u","t">>,  \* 'bahut'
    <<"b","a","d","h","i","y","a">>,  \* 'badhiya'
    <<"a","c","c","h","a">>,  \* 'accha'
    <<"a","c","h","h","a">>,  \* 'achha'
    <<"d","i","l">>,  \* 'dil'
    <<"m","a","z","a">>,  \* 'maza'
    <<"m","a","s","t">>,  \* 'mast'
    <<"k","a","m","a","a","l">>,  \* 'kamaal'
    <<"s","h","a","a","n","d","a","a","r">>,  \* 'shaandaar'
    <<"z","a","b","a","r","d","a","s","t">> >>  \* 'zabardast'

hindi_negative_words == <<
    <<"b","u","r","a">>,  \* 'bura'
    <<"k","h","a","r","a","b">>,  \* 'kharab'
    <<"b","e","k","a","r">>,  \* 'bekar'
    <<"g","a","n","d","i">> >>  \* 'gandi'

positive_contexts == <<
    <<"c","r","a","z","y"," ","a","p","p">>,  \* 'crazy app'
    <<"c","r","a","z","y"," ","g","o","o","d">>,  \* 'crazy good'
    <<"c","r","a","z","y"," ","a","w","e","s","o","m","e">>,  \* 'crazy awesome'
    <<"b","r","a","i","n"," ","r","o","t"," ","a","w","a","y">>,  \* 'brain rot away'
    <<"k","e","e","p","s"," ","b","r","a","i","n"," ","r","o","t"," ","a","w","a","y">>,  \* 'keeps brain rot away'
    <<"p","r","e","v","e","n","t","s"," ","b","r","a","i","n"," ","r","o","t">>,  \* 'prevents brain rot'
    <<"c","r","a","z","y"," ","h","o","w"," ","t","h","i","s"," ","a","p","p">>,  \* 'crazy how this app'
    <<"c","r","a","z","y"," ","h","o","w"," ","t","h","i","s">>,  \* 'crazy how this'
    <<"c","r","a","z","y"," ","t","h","i","s"," ","a","p","p">>,  \* 'crazy this app'
    <<"f","i","n","a","l","l","y"," ","g","a","i","n","e","d">>,  \* 'finally gained'
    <<"f","i","n","a","l","l","y"," ","g","o","t">>,  \* 'finally got'
    <<"f","e","e","l","s"," ","s","o"," ","g","o","o","d">>,  \* 'feels so good'
    <<"d","o","p","a","m","i","n","e"," ","r","u","s","h">>,  \* 'dopamine rush'
    <<"m","a","d"," ","d","o","p","a","m","i","n","e">>,  \* 'mad dopamine'
    <<"a","d","d","i","c","t","e","d"," ","w","i","t","h">>,  \* 'addicted with'
    <<"l","e","a","d","e","r","b","o","a","r","d">>,  \* 'leaderboard'
    <<"r","a","n","k","i","n","g","s">>,  \* 'rankings'
    <<"1","6","0","0"," ","r","a","t","i","n","g">>,  \* '1600 rating'
    <<"1","6","0","0","+"," ","r","a","t","i","n","g">>,  \* '1600+ rating'
    <<"r","a","t","i","n","g","!","!","!","!","!">>,  \* 'rating!!!!!'
    <<"f","e","e","l","s"," ","g","o","o","d"," ","m","a","n">>,  \* 'feels good man'
    <<"h","i","g","h","l","y"," ","r","e","c","o","m","m","e","n","d">>,  \* 'highly recommend'
    <<"c","o","m","p","l","e","t","e","l","y"," ","c","h","a","n","g","e","d">>,  \* 'completely changed'
    <<"u","s","e","d"," ","t","o"," ","h","a","t","e">>,  \* 'used to hate'
    <<"n","o","w"," ","i"," ","d","o">>,  \* 'now i do'
    <<"m","e","n","t","a","l"," ","m","a","t","h">>,  \* 'mental math'
    <<"1","0","-","m","i","n","u","t","e"," ","d","u","e","l","s">>,  \* '10-minute duels'
    <<"d","a","i","l","y"," ","p","r","a","c","t","i","c","e">>,  \* 'daily practice'
    <<"u","n","m","a","t","c","h","e","d">>,  \* 'unmatched'
    <<"s","p","e","e","d"," ","a","n","d"," ","a","c","c","u","r","a","c","y">>,  \* 'speed and accuracy'
    <<"a","d","d","i","c","t","i","v","e">>,  \* 'addictive'
    <<"1","-","m","i","n","u","t","e"," ","d","u","e","l","s">>,  \* '1-minute duels'
    <<"c","o","m","p","a","r","i","n","g"," ","v","s">>,  \* 'comparing vs'
    <<"v","s"," ","o","t","h","e","r"," ","m","a","t","h"," ","a","p","p","s">>,  \* 'vs other math apps'
    <<"f","o","c","u","s"," ","i","s"," ","u","n","m","a","t","c","h","e","d">> >>  \* 'focus is unmatched'

crazy_companions == <<<<"a","p","p">>, <<"m","a","d","e"," ","m","e">>, <<"h","o","w"," ","t","h","i","s">>, <<"a","w","e","s","o","m","e">>, <<"a","m","a","z","i","n","g">>, <<"g","o","o","d">>>>

comparing_companions == <<<<"u","n","m","a","t","c","h","e","d">>, <<"a","d","d","i","c","t","i","v","e">>, <<"b","e","t","t","e","r">>, <<"s","u","p","e","r","i","o","r">>>>

addictive_companions == <<<<"d","u","e","l","s">>, <<"g","a","m","e">>, <<"a","p","p">>, <<"m","a","t","i","k","s">>>>

achievement_patterns == <<
    <<"f","i","n","a","l","l","y"," ","g","a","i","n","e","d">>,  \* 'finally gained'
    <<"f","i","n","a","l","l","y"," ","g","o","t">>,  \* 'finally got'
    <<"f","i","n","a","l","l","y"," ","a","c","h","i","e","v","e","d">>,  \* 'finally achieved'
    <<"f","e","e","l","s"," ","s","o"," ","g","o","o","d">>,  \* 'feels so good'
    <<"f","e","e","l","s"," ","g","o","o","d">>,  \* 'feels good'
    <<"s","o"," ","g","o","o","d"," ","m","a","n">>,  \* 'so good man'
    <<"d","o","p","a","m","i","n","e"," ","r","u","s","h">>,  \* 'dopamine rush'
    <<"m","a","d"," ","d","o","p","a","m","i","n","e">>,  \* 'mad dopamine'
    <<"a","d","d","i","c","t","e","d"," ","w","i","t","h">>,  \* 'addicted with'
    <<"l","e","a","d","e","r","b","o","a","r","d">>,  \* 'leaderboard'
    <<"r","a","n","k","i","n","g","s">>,  \* 'rankings'
    <<"r","a","t","i","n","g","!","!","!","!","!">>,  \* 'rating!!!!!'
    <<"g","r","i","n","d","i","n","g"," ","d","a","i","l","y">>,  \* 'grinding daily'
    <<"d","a","i","l","y"," ","f","o","r"," ","p","a","s","t">>,  \* 'daily for past'
    <<"m","o","n","t","h","s"," ","f","i","n","a","l","l","y">>,  \* 'months finally'
    <<"u","s","e","d"," ","t","o"," ","h","a","t","e">>,  \* 'used to hate'
    <<"n","o","w"," ","i"," ","d","o">>,  \* 'now i do'
    <<"c","o","m","p","l","e","t","e","l","y"," ","c","h","a","n","g","e","d">> >>  \* 'completely changed'

negative_patterns == <<
    <<"m","a","t","i","k","s"," ","i","s"," ","t","e","r","r","i","b","l","e">>,  \* 'matiks is terrible'
    <<"m","a","t","i","k","s"," ","i","s"," ","a","w","f","u","l">>,  \* 'matiks is awful'
    <<"m","a","t","i","k","s"," ","i","s"," ","h","o","r","r","i","b","l","e">>,  \* 'matiks is horrible'
    <<"m","a","t","i","k","s"," ","k","e","e","p","s"," ","c","r","a","s","h","i","n","g">>,  \* 'matiks keeps crashing'
    <<"m","a","t","i","k","s"," ","i","s"," ","b","u","g","g","y">>,  \* 'matiks is buggy'
    <<"m","a","t","i","k","s"," ","d","o","e","s","n","t"," ","w","o","r","k">>,  \* 'matiks doesnt work'
    <<"h","a","t","e"," ","m","a","t","i","k","s">>,  \* 'hate matiks'
    <<"w","o","r","s","t"," ","m","a","t","h"," ","a","p","p">>,  \* 'worst math app'
    <<"m","a","t","i","k","s"," ","i","s"," ","u","s","e","l","e","s","s">>,  \* 'matiks is useless'
    <<"m","a","t","i","k","s"," ","c","u","s","t","o","m","e","r"," ","s","e","r","v","i","c","e">>,  \* 'matiks customer service'
    <<"m","a","t","i","k","s"," ","s","u","p","p","o","r","t"," ","i","s">>,  \* 'matiks support is'
    <<"m","a","t","i","k","s"," ","n","e","v","e","r"," ","r","e","s","p","o","n","d","s">> >>  \* 'matiks never responds'

\* The default neutral_threshold, 0.05
DefaultNeutralThreshold == 5

Max(a, b) == IF a >= b THEN a ELSE b
Min(a, b) == IF a <= b THEN a ELSE b

\* positive_context_count of analyze_text
PositiveContextCount(text_lower) ==
    CountMatching(text_lower, positive_contexts, 1)
    + (IF Contains(text_lower, <<"c","r","a","z","y">>) /\ ContainsAny(text_lower, crazy_companions)
       THEN 1 ELSE 0)
    + (IF Contains(text_lower, <<"c","o","m","p","a","r","i","n","g">>)
          /\ ContainsAny(text_lower, comparing_companions) THEN 1 ELSE 0)
    + (IF Contains(text_lower, <<"a","d","d","i","c","t","i","v","e">>)
          /\ ContainsAny(text_lower, addictive_companions) THEN 1 ELSE 0)
    + (IF ContainsAny(text_lower, achievement_patterns) THEN 1 ELSE 0)

\* The label with strict comparisons
LabelOfStrict(polarity, neutral_threshold) ==
    IF polarity > neutral_threshold THEN "positive"
    ELSE IF polarity < -neutral_threshold THEN "negative"
    ELSE "neutral"

\* The label analyze_text derives from the final polarity.
LabelOf(polarity, neutral_threshold) ==
    IF polarity >= neutral_threshold THEN "positive"
    ELSE IF polarity <= -neutral_threshold THEN "negative"
    ELSE "neutral"

\* The adjustments in another order or on another polarity: which, being
\* "negative first", "hindi last" or "on the base".
AdjustedAs(which, txt, base_polarity, base_subjectivity, neutral_threshold) ==
    LET text_lower == Lower(txt)
        hindi_positive_count == CountMatching(text_lower, hindi_positive_words, 1)
        hindi_negative_count == CountMatching(text_lower, hindi_negative_words, 1)
        positive_context_count == PositiveContextCount(text_lower)
        negative_context_count == CountMatching(text_lower, negative_patterns, 1)
        Hindi(p, on) == IF hindi_positive_count > 0 /\ hindi_negative_count = 0
                        THEN Max(on + 30, 20)
                        ELSE IF hindi_negative_count > 0 /\ hindi_positive_count = 0
                             THEN Min(on - 30, -20)
                             ELSE p
        Positive(p, on) == IF positive_context_count > 0 THEN Max(on + 50, 30) ELSE p
        Negative(p, on) == IF negative_context_count > 0 THEN Min(on - 40, -30) ELSE p
        b == base_polarity
        p3 == CASE which = "negative first" ->
                    LET q1 == Hindi(b, b)
                        q2 == Negative(q1, q1)
                    IN  Positive(q2, q2)
                [] which = "hindi last" ->
                    LET q1 == Positive(b, b)
                        q2 == Negative(q1, q1)
                    IN  Hindi(q2, q2)
                [] which = "on the base" ->
                    Negative(Positive(Hindi(b, b), b), b)
    IN  [polarity |-> p3, subjectivity |-> base_subjectivity,
         label |-> LabelOf(p3, neutral_threshold)]

\* analyze_text with the negative rule ahead of the positive-context rule
AdjustedNegativeFirst(txt, base_polarity, base_subjectivity, neutral_threshold) ==
    AdjustedAs("negative first", txt, base_polarity, base_subjectivity, neutral_threshold)

\* analyze_text with the Hindi rule after the other two
AdjustedHindiLast(txt, base_polarity, base_subjectivity, neutral_threshold) ==
    AdjustedAs("hindi last", txt, base_polarity, base_subjectivity, neutral_threshold)

\* analyze_text with every rule that fires applied to the base polarity
AdjustedOnBase(txt, base_polarity, base_subjectivity, neutral_threshold) ==
    AdjustedAs("on the base", txt, base_polarity, base_subjectivity, neutral_threshold)

\* analyze_text from the point where TextBlob has given the base polarity and
\* subjectivity of the (non-empty) stripped text.
Adjusted(txt, base_polarity, base_subjectivity, neutral_threshold) ==
    LET text_lower == Lower(txt)
        hindi_positive_count == CountMatching(text_lower, hindi_positive_words, 1)
        hindi_negative_count == CountMatching(text_lower, hindi_negative_words, 1)
        positive_context_count == PositiveContextCount(text_lower)
        negative_context_count == CountMatching(text_lower, negative_patterns, 1)
        p1 == IF hindi_positive_count > 0 /\ hindi_negative_count = 0
              THEN Max(base_polarity + 30, 20)
              ELSE IF hindi_negative_count > 0 /\ hindi_positive_count = 0
                   THEN Min(base_polarity - 30, -20)
                   ELSE base_polarity
        p2 == IF positive_context_count > 0 THEN Max(p1 + 50, 30) ELSE p1
        p3 == IF negative_context_count > 0 THEN Min(p2 - 40, -30) ELSE p2
    IN  [polarity |-> p3, subjectivity |-> base_subjectivity,
         label |-> LabelOf(p3, neutral_threshold)]

\* TextBlob(text).sentiment, the general-purpose lexical model outside this
\* repository: a fixed function of the text, here the mean over a small
\* lexicon of the words the text contains.
LexiconPositive == <<<<"g","o","o","d">>, <<"g","r","e","a","t">>, <<"l","o","v","e">>, <<"b","e","s","t">>>>
LexiconNegative == <<<<"b","a","d">>, <<"h","a","t","e">>, <<"w","o","r","s","t">>, <<"c","r","a","z","y">>>>

TextBlobSentiment(txt) ==
    LET text_lower == Lower(txt)
        pos == CountMatching(text_lower, LexiconPositive, 1)
        neg == CountMatching(text_lower, LexiconNegative, 1)
    IN  IF pos + neg = 0 THEN [polarity |-> 0, subjectivity |-> 0]
        ELSE [polarity |-> ((pos - neg) * 70) \div (pos + neg), subjectivity |-> 60]

\* analyze_text(text, neutral_threshold=...), blob being what TextBlob gives
\* for the stripped text
AnalyzeGiven(val, neutral_threshold, blob) ==
    LET txt == safe_text(val)
    IN  IF txt = <<>>
        THEN [polarity |-> 0, subjectivity |-> 0, label |-> "neutral"]
        ELSE Adjusted(txt, blob.polarity, blob.subjectivity, neutral_threshold)

\* analyze_text(text, neutral_threshold=...)
analyze_text(val, neutral_threshold) ==
    AnalyzeGiven(val, neutral_threshold, TextBlobSentiment(safe_text(val)))

\* ------------------------------------------------- the persisted table

\* combined.csv is missing, unreadable, or holds rows. A row of the file is a
\* canonical row whose cells are what to_csv wrote: a str cell is the text
\* written (<<>> for an empty cell), a number cell a number (NoNumber for an
\* empty cell), the timestamp cell an instant (NaT for an empty cell).
MissingFile == [state |-> "missing", rows |-> <<>>]
UnreadableFile == [state |-> "unreadable", rows |-> <<>>]
TableFile(rows) == [state |-> "ok", rows |-> rows]

\* The cells pd.read_csv reads as missing (its default na_values).
NaValues == {
    <<>>, <<"#","N","/","A">>, <<"#","N","/","A"," ","N","/","A">>, <<"#","N","A">>, <<"-","1",".","#","I","N","D">>, <<"-","1",".","#","Q","N","A","N">>, <<"-","N","a","N">>, <<"-","n","a","n">>,
    <<"1",".","#","I","N","D">>, <<"1",".","#","Q","N","A","N">>, <<"<","N","A",">">>, <<"N","/","A">>, <<"N","A">>, <<"N","U","L","L">>, <<"N","a","N">>, <<"N","o","n","e">>,
    <<"n","/","a">>, <<"n","a","n">>, <<"n","u","l","l">> }

\* pd.read_csv on one str cell
ReadCell(cell) == IF cell \in NaValues THEN NaN ELSE cell

\* DataFrame.to_csv on one str value: a missing value is an empty cell
WriteCell(v) == IF IsMissing(v) THEN <<>> ELSE v

StrColumns == {"platform", "type", "author", "url", "text", "rating", "app_version"}

\* pd.read_csv on one row; the timestamp, number and sentiment cells read back
\* as the values written.
ReadRow(r) == [c \in DOMAIN r |-> IF c \in StrColumns THEN ReadCell(r[c]) ELSE r[c]]

\* DataFrame.to_csv on one row
WriteRow(r) == [c \in DOMAIN r |-> IF c \in StrColumns THEN WriteCell(r[c]) ELSE r[c]]

read_csv(rows) == [i \in 1..Len(rows) |-> ReadRow(rows[i])]

to_csv(rows) == [i \in 1..Len(rows) |-> WriteRow(rows[i])]

\* load_existing_combined recovering rows from a file it cannot read
load_existing_combined_recovering(file) ==
    IF file.state = "missing" THEN <<>>
    ELSE IF file.state = "unreadable"
         THEN read_csv(<<CanonicalRow(PlatformReddit, TypeSocial, <<"o","l","d">>, <<>>, NaT,
                                      0, 0, 0, <<"a","n"," ","e","a","r","l","i","e","r"," ","r","o","w">>, <<>>, <<>>)>>)
    ELSE read_csv(file.rows)

\* load_existing_combined(path): no file and an unreadable file give the
\* empty frame; the timestamp column is parsed back to the instants written.
load_existing_combined(file) ==
    IF file.state = "missing" THEN <<>>
    ELSE IF file.state = "unreadable" THEN <<>>
    ELSE read_csv(file.rows)

\* ------------------------------------------- inputs of the relevance filter

\* Words the filter's inputs are built from: the brand token in three
\* spellings, the near-homonym, and words that complete an exclusion phrase,
\* an inclusion phrase, an app word, a company word, or nothing.
Vocabulary == <<
    <<"m","a","t","i","k","s">>, <<"M","a","t","i","k","s">>, <<"M","A","T","I","K","S">>, <<"m","a","t","i","k">>, <<"n","a">>, <<"m","a","t","h">>, <<"p","r","o","b","l","e","m">>,
    <<"M","a","t","h","e","m","a","t","i","c","s">>, <<"a","p","p">>, <<"u","s","i","n","g">>, <<"j","o","b">>, <<"h","e","l","l","o">> >>

\* Longest input, in words.
MaxWords == 3

RECURSIVE Phrases(_)
Phrases(n) ==
    IF n = 1 THEN {Vocabulary[k] : k \in 1..Len(Vocabulary)}
    ELSE {p \o <<" ">> \o Vocabulary[k] : p \in Phrases(n - 1), k \in 1..Len(Vocabulary)}

RelevanceInputs ==
    {NONE, NaN, <<>>, <<" ">>} \cup UNION {Phrases(n) : n \in 1..MaxWords}

\* ------------------------------------------------- what the fetchers give

RedditColumns == {"title", "content", "author", "created_utc", "score", "url",
                  "num_comments"}
TwitterColumns == {"content", "username", "name", "date", "replyCount",
                   "retweetCount", "likeCount", "url"}
LinkedInColumns == {"content", "author", "timestamp", "engagement_likes",
                    "engagement_comments", "engagement_shares", "url"}
GooglePlayColumns == {"rating", "review_text", "date", "version", "author",
                      "thumbsUpCount"}
AppleColumns == {"rating", "review_text", "date", "version", "author"}

\* One forum post, fetched with the score it has at the time.
RedditPost(score) ==
    [title |-> <<"M","a","t","i","k","s"," ","a","p","p"," ","r","e","v","i","e","w">>, content |-> <<>>, author |-> <<"u","1">>,
     created_utc |-> RawNum(20000), score |-> score, url |-> <<"r","/","1">>,
     num_comments |-> 2]

\* A forum post that only mentions the near-homonym.
RedditNoise ==
    [title |-> <<"m","a","t","i","k"," ","t","u","w","i","n","g"," ","m","a","y"," ","o","r","a","s">>, content |-> NONE, author |-> <<"u","2">>,
     created_utc |-> RawNum(30000), score |-> 1, url |-> <<"r","/","2">>,
     num_comments |-> 0]

Tweet ==
    [content |-> <<" ","u","s","i","n","g"," ","M","a","t","i","k","s"," ">>, username |-> <<"a","n","n">>, name |-> <<"A","n","n">>,
     date |-> RawStr(<<"1","9","7","0","-","0","1","-","0","3">>), replyCount |-> 0, retweetCount |-> 4,
     likeCount |-> NoNumber, url |-> <<"t","/","1">>]

LinkedInPost ==
    [content |-> <<"M","a","t","i","k","s"," ","t","e","a","m"," ","i","s"," ","h","i","r","i","n","g">>, author |-> NONE,
     timestamp |-> RawStr(<<>>), engagement_likes |-> 3,
     engagement_comments |-> 0, engagement_shares |-> 7,
     url |-> <<"h","t","t","p","s",":","/","/","d","u","c","k","d","u","c","k","g","o",".","c","o","m","/","l","/","?","u","=","x">>]

\* A review whose whole text is "N/A".
GoogleReview ==
    [rating |-> <<"5">>, review_text |-> <<"N","/","A">>, date |-> RawStr(<<"1","9","7","0","-","0","1","-","0","2">>),
     version |-> <<"2",".","1",".","0">>, author |-> <<"b","o","b">>, thumbsUpCount |-> 12]

AppleReview ==
    [rating |-> <<"1">>, review_text |-> <<"h","a","t","e"," ","m","a","t","i","k","s",","," ","w","o","r","s","t"," ","a","p","p">>,
     date |-> RawNone, version |-> <<>>, author |-> <<"e","v","e">>]

RedditFetches ==
    {Frame({}, <<>>),
     Frame(RedditColumns, <<RedditPost(5)>>),
     Frame(RedditColumns, <<RedditPost(9)>>),
     Frame(RedditColumns, <<RedditNoise>>)}

TwitterFetches ==
    {NoFrame, Frame(TwitterColumns, <<Tweet>>)}

LinkedInFetches ==
    {NoFrame, Frame(LinkedInColumns, <<LinkedInPost>>)}

GooglePlayFetches ==
    {NoFrame,
     Frame(GooglePlayColumns, <<GoogleReview>>)}

\* The last payload lacks the author, date, rating and version columns.
AppleFetches ==
    {NoFrame, Frame(AppleColumns, <<AppleReview>>),
     Frame({"review_text"}, <<AppleReview>>)}

\* A table written by something other than this cycle: its first row has no
\* platform, its second no type.
LegacyRows == <<
    [CanonicalRow(<<>>, TypeSocial, <<"o","l","d","1">>, <<>>, NaT, NoNumber, 0, 0,
                  <<"r","o","w"," ","w","i","t","h","o","u","t"," ","p","l","a","t","f","o","r","m">>, <<>>, <<>>)
        EXCEPT !.sentiment_label = "neutral"],
    [CanonicalRow(PlatformReddit, <<>>, <<"o","l","d","2">>, <<"r","/","0">>, Instant(50000, 0), 2, 0, 0,
                  <<"M","a","t","i","k","s"," ","g","a","m","e"," ","n","i","g","h","t">>, <<>>, <<>>)
        EXCEPT !.sentiment_label = "neutral"] >>

InitialFiles == {MissingFile, UnreadableFile, TableFile(LegacyRows)}

\* ----------------------------------------------------------- merge, dedupe

\* astype(str) of a timestamp after fillna(""): one text per instant.
TimestampStr(ts) ==
    IF ts.nat THEN <<>> ELSE Decimal(ts.sec) \o <<".">> \o Decimal(ts.ns)

\* The number of characters of the text that enter the key.
KeyTextLen == 200

\* astype(str) of a str column value: a missing value prints as "nan"
AsStr(v) == IF IsMissing(v) THEN <<"n","a","n">> ELSE v

\* a key that also holds the sentiment label the row has at the time
DedupeKeyWithLabel(r) ==
    AsStr(r.platform) \o <<"|">> \o AsStr(r.type) \o <<"|">> \o FillNa(r.url, <<>>) \o <<"|">>
    \o FillNa(r.author, <<>>) \o <<"|">> \o TimestampStr(r.timestamp) \o <<"|">>
    \o Slice(FillNa(r.text, <<>>), KeyTextLen) \o <<"|">> \o <<r.sentiment_label>>

\* __dedupe_key of dedupe
DedupeKey(r) ==
    AsStr(r.platform) \o <<"|">> \o AsStr(r.type) \o <<"|">> \o FillNa(r.url, <<>>) \o <<"|">>
    \o FillNa(r.author, <<>>) \o <<"|">> \o TimestampStr(r.timestamp) \o <<"|">>
    \o Slice(FillNa(r.text, <<>>), KeyTextLen)

\* drop_duplicates with keep="last" instead of the default keep="first"
RECURSIVE DropDuplicatesKeepLast(_)
DropDuplicatesKeepLast(rows) ==
    IF rows = <<>> THEN <<>>
    ELSE LET rest == Tail(rows) IN
         IF \E j \in 1..Len(rest) : DedupeKey(rest[j]) = DedupeKey(Head(rows))
         THEN DropDuplicatesKeepLast(rest)
         ELSE <<Head(rows)>> \o DropDuplicatesKeepLast(rest)

\* drop_duplicates(subset=["__dedupe_key"]): the first row of each key stays
RECURSIVE DropDuplicatesFrom(_, _)
DropDuplicatesFrom(rows, seen) ==
    IF rows = <<>> THEN <<>>
    ELSE IF DedupeKey(Head(rows)) \in seen
         THEN DropDuplicatesFrom(Tail(rows), seen)
         ELSE <<Head(rows)>>
              \o DropDuplicatesFrom(Tail(rows), seen \cup {DedupeKey(Head(rows))})

drop_duplicates(rows) == DropDuplicatesFrom(rows, {})

\* dropna(subset=["platform"])
DropNaPlatform(rows) ==
    SelectRows(rows, [i \in 1..Len(rows) |-> ~IsMissing(rows[i].platform)])

\* dedupe(df)
dedupe(rows) ==
    IF rows = <<>> THEN rows ELSE drop_duplicates(DropNaPlatform(rows))

\* The texts the fetch menus and the legacy table hold, as fetched and as read
\* back from the table.
MenuTexts ==
    LET frames == {normalize_reddit(f) : f \in RedditFetches}
                  \cup {normalize_twitter(f) : f \in TwitterFetches}
                  \cup {normalize_linkedin(f) : f \in LinkedInFetches}
                  \cup {normalize_google_play(f) : f \in GooglePlayFetches}
                  \cup {normalize_apple_store(f) : f \in AppleFetches}
        texts(rows) == {rows[i].text : i \in 1..Len(rows)}
    IN  UNION {texts(n.rows) : n \in frames} \cup texts(LegacyRows) \cup {NaN, <<>>}

\* analyze_text is a pure function: its results on the texts above, computed
\* once.
ScoreTable ==
    {<<t, analyze_text(t, DefaultNeutralThreshold)>> : t \in MenuTexts}

\* analyze_text(txt) with the default threshold
Score(txt) ==
    IF txt \in MenuTexts
    THEN (CHOOSE e \in ScoreTable : e[1] = txt)[2]
    ELSE analyze_text(txt, DefaultNeutralThreshold)

\* add_sentiment_columns giving every row the score of the table's first row
add_sentiment_columns_of_first(rows) ==
    [i \in 1..Len(rows) |->
        LET res == Score(rows[1].text) IN
        [rows[i] EXCEPT !.sentiment_polarity = res.polarity,
                        !.sentiment_subjectivity = res.subjectivity,
                        !.sentiment_label = res.label]]

\* add_sentiment_columns(all_df, text_col="text") with the default threshold
add_sentiment_columns(rows) ==
    [i \in 1..Len(rows) |->
        LET res == Score(rows[i].text) IN
        [rows[i] EXCEPT !.sentiment_polarity = res.polarity,
                        !.sentiment_subjectivity = res.subjectivity,
                        !.sentiment_label = res.label]]

\* a goes before b in sort_values(by=["timestamp"], ascending=True,
\* na_position="first")
GoesBeforeAscending(a, b) ==
    \/ a.timestamp.nat /\ ~b.timestamp.nat
    \/ ~a.timestamp.nat /\ ~b.timestamp.nat /\ Later(b.timestamp, a.timestamp)

\* a goes before b in sort_values(by=["timestamp"], ascending=False,
\* na_position="last")
GoesBefore(a, b) ==
    \/ ~a.timestamp.nat /\ b.timestamp.nat
    \/ ~a.timestamp.nat /\ ~b.timestamp.nat /\ Later(a.timestamp, b.timestamp)

\* r put into the sorted rows after every row that does not go after it
RECURSIVE Insert(_, _)
Insert(r, sorted) ==
    IF sorted = <<>> THEN <<r>>
    ELSE IF GoesBefore(r, Head(sorted)) THEN <<r>> \o sorted
    ELSE <<Head(sorted)>> \o Insert(r, Tail(sorted))

\* sort_values: rows with equal timestamps keep their order
RECURSIVE SortFrom(_, _)
SortFrom(rows, sorted) ==
    IF rows = <<>> THEN sorted
    ELSE SortFrom(Tail(rows), Insert(Head(rows), sorted))

sort_values(rows) == SortFrom(rows, <<>>)

\* all_df.fillna({...}) before saving
FillRow(r) ==
    [r EXCEPT !.url = FillNa(@, <<>>),
              !.engagement_likes = FillNaNumber(@, 0),
              !.engagement_comments = FillNaNumber(@, 0),
              !.engagement_shares = FillNaNumber(@, 0),
              !.rating = FillNa(@, <<>>),
              !.app_version = FillNa(@, <<>>),
              !.author = FillNa(@, <<>>),
              !.text = FillNa(@, <<>>)]

fillna(rows) == [i \in 1..Len(rows) |-> FillRow(rows[i])]

\* pd.concat([existing, new_df]) if not existing.empty else new_df
ConcatExisting(existing, incoming) ==
    IF existing # <<>> THEN existing \o incoming ELSE incoming

\* _cycle from load_existing_combined to the fillna before saving
Merged(file, incoming) ==
    fillna(sort_values(dedupe(add_sentiment_columns(
        ConcatExisting(load_existing_combined(file), incoming)))))

\* ------------------------------------------------------------------ state

VARIABLES
    arg_text,       \* the argument of is_matiks_relevant
    called,         \* whether is_matiks_relevant has returned
    relevant,       \* what it returned
    pc,             \* where _cycle stands
    combined_csv,   \* the persisted table, combined.csv
    before,         \* combined.csv as it was when the running cycle started
    new_df,         \* what run_once returned
    all_df,         \* the merged frame of _cycle
    last_run,       \* the status record, last_run.json
    status_writes,  \* how often the running cycle has written last_run.json
    failed_at,      \* the step of the running cycle that raised, or "none"
    cycles,         \* how many cycles run_forever has started
    call            \* a call of one function on its own: what, on what, the result

vars == <<arg_text, called, relevant, pc, combined_csv, before, new_df, all_df,
          last_run, status_writes, failed_at, cycles, call>>

relevance_vars == <<arg_text, called, relevant>>
cycle_vars == <<pc, combined_csv, before, new_df, all_df, last_run,
                status_writes, failed_at, cycles>>

\* run_forever starts a cycle every interval, without end; the model stops it
\* after this many
MaxCycles == 2

\* no function is being called on its own
NoCall == [fn |-> "none", returned |-> FALSE]

NoStatus == [written |-> FALSE, ok |-> FALSE, rows_total |-> NoNumber,
             rows_new |-> NoNumber, error |-> "none"]

InitCycle ==
    /\ pc = "idle"
    /\ before = MissingFile
    /\ new_df = <<>>
    /\ all_df = <<>>
    /\ last_run = NoStatus
    /\ status_writes = 0
    /\ failed_at = "none"
    /\ cycles = 0

Init ==
    /\ arg_text = <<>>
    /\ called = FALSE
    /\ relevant = FALSE
    /\ combined_csv \in InitialFiles
    /\ InitCycle
    /\ call = NoCall

\* ------------------------------------------------------------- the cycle

\* _cycle is entered (by --once or by the scheduler).
StartCycle ==
    /\ pc = "idle"
    /\ cycles < MaxCycles
    /\ cycles' = cycles + 1
    /\ pc' = "run_once"
    /\ before' = combined_csv
    /\ status_writes' = 0
    /\ failed_at' = "none"
    /\ UNCHANGED <<combined_csv, new_df, all_df, last_run, relevance_vars, call>>

\* pd.concat of the frames that are not empty, in the order of all_dfs
RECURSIVE ConcatNonEmpty(_)
ConcatNonEmpty(frames) ==
    IF frames = <<>> THEN <<>> ELSE Head(frames) \o ConcatNonEmpty(Tail(frames))

Sources == {"Reddit", "Twitter API", "LinkedIn API", "Google Play", "Apple Store"}

\* run_once after the five fetches have returned: the five normalizers, then
\* pd.concat, which raises ValueError when no frame is left to concatenate.
RunOnceResult(reddit_df, twitter_df, linkedin_df, google_df, apple_df) ==
    LET norms == <<normalize_reddit(reddit_df), normalize_twitter(twitter_df),
                   normalize_linkedin(linkedin_df), normalize_google_play(google_df),
                   normalize_apple_store(apple_df)>>
    IN  IF \E i \in 1..Len(norms) : norms[i].raised
        THEN [raised |-> "normalize", rows |-> <<>>]
        ELSE IF \A i \in 1..Len(norms) : norms[i].rows = <<>>
             THEN [raised |-> "concat", rows |-> <<>>]
             ELSE [raised |-> "none",
                   rows |-> ConcatNonEmpty([i \in 1..Len(norms) |-> norms[i].rows])]

\* run_once with every fetch returning a payload
RunOnce ==
    /\ pc = "run_once"
    /\ \E reddit_df \in RedditFetches, twitter_df \in TwitterFetches,
          linkedin_df \in LinkedInFetches, google_df \in GooglePlayFetches,
          apple_df \in AppleFetches :
          LET res == RunOnceResult(reddit_df, twitter_df, linkedin_df, google_df,
                                   apple_df) IN
          /\ new_df' = res.rows
          /\ failed_at' = res.raised
          /\ pc' = IF res.raised = "none" THEN "merge" ELSE "except"
    /\ UNCHANGED <<combined_csv, before, all_df, last_run, status_writes,
                   cycles, relevance_vars, call>>

\* FetchFails with the table opened for writing before the fetches
FetchFailsTruncating ==
    /\ pc = "run_once"
    /\ \E source \in Sources : failed_at' = "fetch"
    /\ pc' = "except"
    /\ combined_csv' = TableFile(<<>>)
    /\ UNCHANGED <<before, new_df, all_df, last_run, status_writes,
                   cycles, relevance_vars, call>>

\* FetchFails with the failed source taken as one that gave no rows
FetchFailsSkippingSource ==
    /\ pc = "run_once"
    /\ \E source \in Sources : failed_at' = "fetch"
    /\ new_df' = normalize_google_play(Frame(GooglePlayColumns, <<GoogleReview>>)).rows
    /\ pc' = "merge"
    /\ UNCHANGED <<combined_csv, before, all_df, last_run, status_writes,
                   cycles, relevance_vars, call>>

\* run_once when the fetch of one source raises on every attempt: retry raises
\* RuntimeError and no normalizer has run.
FetchFails ==
    /\ pc = "run_once"
    /\ \E source \in Sources : failed_at' = "fetch"
    /\ pc' = "except"
    /\ UNCHANGED <<combined_csv, before, new_df, all_df, last_run, status_writes,
                   cycles, relevance_vars, call>>

\* _cycle, lines 814-839: load, concat, score, dedupe, sort, fillna, to_csv
MergeAndSave ==
    /\ pc = "merge"
    /\ all_df' = Merged(combined_csv, new_df)
    /\ combined_csv' = TableFile(to_csv(all_df'))
    /\ pc' = "render"
    /\ UNCHANGED <<before, new_df, last_run, status_writes, failed_at,
                   cycles, relevance_vars, call>>

\* The same, with to_csv raising (an OSError): the file could not be opened and
\* is as it was, or it was opened, which truncates it, and the one chunk that
\* holds the rows was not written.
SaveFails ==
    /\ pc = "merge"
    /\ \/ UNCHANGED combined_csv
       \/ combined_csv' = TableFile(<<>>)
    /\ failed_at' = "save"
    /\ pc' = "except"
    /\ new_df' = <<>>             \* the handler reads neither frame
    /\ all_df' = <<>>
    /\ UNCHANGED <<before, last_run, status_writes, cycles, relevance_vars, call>>

\* render_dashboard_html raises (dashboard.html cannot be written).
RenderFails ==
    /\ pc = "render"
    /\ failed_at' = "render"
    /\ pc' = "except"
    /\ new_df' = <<>>
    /\ all_df' = <<>>
    /\ UNCHANGED <<combined_csv, before, last_run, status_writes, cycles, relevance_vars, call>>

\* the except branch without its json.dump
ExceptWithoutStatus ==
    /\ pc = "except"
    /\ pc' = "idle"
    /\ before' = MissingFile
    /\ new_df' = <<>>
    /\ all_df' = <<>>
    /\ UNCHANGED <<combined_csv, last_run, status_writes, failed_at, cycles, relevance_vars, call>>

\* lines 843-860: update_status_file (which catches what it raises),
\* render_dashboard_html, and the status of a cycle whose steps all completed
RenderAndWriteStatus ==
    /\ pc = "render"
    /\ last_run' = [written |-> TRUE, ok |-> TRUE, rows_total |-> Len(all_df),
                    rows_new |-> Len(new_df), error |-> "none"]
    /\ status_writes' = status_writes + 1
    /\ pc' = "idle"
    /\ before' = MissingFile      \* the locals of _cycle end with it
    /\ new_df' = <<>>
    /\ all_df' = <<>>
    /\ UNCHANGED <<combined_csv, failed_at, cycles, relevance_vars, call>>

\* lines 861-870: the status of a cycle one of whose steps raised
Except ==
    /\ pc = "except"
    /\ last_run' = [written |-> TRUE, ok |-> FALSE, rows_total |-> NoNumber,
                    rows_new |-> NoNumber, error |-> failed_at]
    /\ status_writes' = status_writes + 1
    /\ pc' = "idle"
    /\ before' = MissingFile
    /\ new_df' = <<>>
    /\ all_df' = <<>>
    /\ UNCHANGED <<combined_csv, failed_at, cycles, relevance_vars, call>>

Next ==
    \/ StartCycle
    \/ RunOnce
    \/ FetchFails
    \/ MergeAndSave
    \/ SaveFails
    \/ RenderFails
    \/ RenderAndWriteStatus
    \/ Except

Spec == Init /\ [][Next]_vars

\* ------------------------------------------- the relevance filter on its own

InitRelevance ==
    /\ arg_text \in RelevanceInputs
    /\ called = FALSE
    /\ relevant = FALSE
    /\ combined_csv = MissingFile
    /\ InitCycle
    /\ call = NoCall

CallRelevance ==
    /\ ~called
    /\ called' = TRUE
    /\ relevant' = is_matiks_relevant(arg_text)
    /\ UNCHANGED <<arg_text, cycle_vars, call>>

NextRelevance == CallRelevance

SpecRelevance == InitRelevance /\ [][NextRelevance]_vars

\* --------------------------------------------- one function on its own

\* A call of fn on arg that has not returned yet, and the call once returned.
Calling(fn, arg) == [fn |-> fn, arg |-> arg, returned |-> FALSE, result |-> <<>>]
Returning(c, result) == [c EXCEPT !.returned = TRUE, !.result = result]

\* Everything but the call is as it is before the first cycle.
InitIdle ==
    /\ arg_text = <<>>
    /\ called = FALSE
    /\ relevant = FALSE
    /\ combined_csv = MissingFile
    /\ InitCycle

\* ------------------------------------------------ analyze_text on its own

\* Words the scorer's inputs are built from: a Hindi positive and a Hindi
\* negative word, the parts of a positive context and of a negative pattern,
\* and a word no rule knows.
SentimentVocabulary == <<
    <<"B","a","h","u","t">>, <<"b","u","r","a">>, <<"c","r","a","z","y">>, <<"a","p","p">>, <<"h","a","t","e"," ","m","a","t","i","k","s">>, <<"u","n","m","a","t","c","h","e","d">>, <<"o","k">> >>

RECURSIVE SentimentPhrases(_)
SentimentPhrases(n) ==
    IF n = 1 THEN {SentimentVocabulary[k] : k \in 1..Len(SentimentVocabulary)}
    ELSE {p \o <<" ">> \o SentimentVocabulary[k] :
            p \in SentimentPhrases(n - 1), k \in 1..Len(SentimentVocabulary)}

BlankTexts == {NONE, NaN, <<>>, <<" ">>, <<" ","\n","\t">>}

SentimentTexts == BlankTexts \cup UNION {SentimentPhrases(n) : n \in 1..MaxWords}

\* neutral_threshold as configured: zero, the default, a wide band
Thresholds == {0, DefaultNeutralThreshold, 30}

\* What the base model can deliver: polarity in [-1, 1], subjectivity in [0, 1]
BasePolarities == {-100, -5, 0, 5, 100}
BaseSubjectivities == {0, 50}

InitSentiment ==
    /\ InitIdle
    /\ call \in {Calling("analyze_text",
                         [text |-> t, neutral_threshold |-> th,
                          blob |-> [polarity |-> p, subjectivity |-> sb]]) :
                    t \in SentimentTexts, th \in Thresholds,
                    p \in BasePolarities, sb \in BaseSubjectivities}

CallAnalyzeText ==
    /\ call.fn = "analyze_text"
    /\ ~call.returned
    /\ call' = Returning(call, AnalyzeGiven(call.arg.text, call.arg.neutral_threshold,
                                            call.arg.blob))
    /\ UNCHANGED <<relevance_vars, cycle_vars>>

NextSentiment == CallAnalyzeText

SpecSentiment == InitSentiment /\ [][NextSentiment]_vars

\* ---------------------------------------------- the normalizers on their own

\* The forum row of the specification's scenario.
ScenarioRow ==
    [title |-> <<"M","a","t","i","k","s"," ","a","p","p"," ","r","e","v","i","e","w">>, content |-> <<>>, author |-> <<"u","1">>,
     created_utc |-> RawNum(1700000000), score |-> 5, url |-> <<".",".",".","/","p","/","1">>,
     num_comments |-> 2]

Normalizers == {"normalize_reddit", "normalize_twitter", "normalize_linkedin",
                "normalize_google_play", "normalize_apple_store"}

\* The columns a full raw payload of each source has.
ColumnsOf(fn) ==
    CASE fn = "normalize_reddit" -> RedditColumns
      [] fn = "normalize_twitter" -> TwitterColumns
      [] fn = "normalize_linkedin" -> LinkedInColumns
      [] fn = "normalize_google_play" -> GooglePlayColumns
      [] fn = "normalize_apple_store" -> AppleColumns

\* Rows the relevance filter drops, and further rows it keeps.
TweetNoise == [Tweet EXCEPT !.content = <<"h","e","l","l","o">>, !.username = <<"z","e","d">>, !.url = <<"t","/","0">>]
TweetOther == [Tweet EXCEPT !.content = <<"M","a","t","i","k","s"," ","a","p","p">>, !.username = <<"b","e","a">>, !.url = <<"t","/","2">>,
                            !.date = RawStr(<<"1","9","7","0","-","0","1","-","0","5">>)]
LinkedInNoise == [LinkedInPost EXCEPT !.content = NaN, !.author = <<"z","e","d">>]
LinkedInOther == [LinkedInPost EXCEPT !.content = <<"M","a","t","i","k","s"," ","i","n","t","e","r","n","s","h","i","p">>, !.author = <<"b","e","a">>,
                                      !.url = <<"h","t","t","p","s",":","/","/","w","w","w",".","l","i","n","k","e","d","i","n",".","c","o","m","/","i","n","/","b","e","a">>,
                                      !.timestamp = RawNum(30000)]
AppleOther == [AppleReview EXCEPT !.review_text = <<"g","r","e","a","t">>, !.author = <<"d","a","n">>,
                                  !.date = RawStr(<<"1","9","7","0","-","0","1","-","0","4">>)]

\* Raw rows of each source.
RowsOf(fn) ==
    CASE fn = "normalize_reddit" ->
            {<<ScenarioRow>>, <<RedditNoise>>, <<RedditPost(9), RedditNoise>>,
             <<RedditNoise, ScenarioRow, RedditPost(9)>>}
      [] fn = "normalize_twitter" -> {<<Tweet>>, <<TweetNoise, Tweet, TweetOther>>}
      [] fn = "normalize_linkedin" ->
            {<<LinkedInPost>>, <<LinkedInOther, LinkedInNoise, LinkedInPost>>}
      [] fn = "normalize_google_play" -> {<<GoogleReview>>}
      [] fn = "normalize_apple_store" -> {<<AppleReview>>, <<AppleOther, AppleReview>>}

\* The payloads a normalizer is called on: none, one without rows, and the
\* rows above with any of the source's columns absent.
PayloadsOf(fn) ==
    {NoFrame, Frame(ColumnsOf(fn), <<>>)}
    \cup {Frame(cols, rows) : cols \in SUBSET ColumnsOf(fn), rows \in RowsOf(fn)}

\* The normalizer of that name, applied
Normalize(fn, df) ==
    CASE fn = "normalize_reddit" -> normalize_reddit(df)
      [] fn = "normalize_twitter" -> normalize_twitter(df)
      [] fn = "normalize_linkedin" -> normalize_linkedin(df)
      [] fn = "normalize_google_play" -> normalize_google_play(df)
      [] fn = "normalize_apple_store" -> normalize_apple_store(df)

InitNormalize ==
    /\ InitIdle
    /\ call \in UNION {{Calling(fn, df) : df \in PayloadsOf(fn)} : fn \in Normalizers}

CallNormalize ==
    /\ call.fn \in Normalizers
    /\ ~call.returned
    /\ call' = Returning(call, Normalize(call.fn, call.arg))
    /\ UNCHANGED <<relevance_vars, cycle_vars>>

NextNormalize == CallNormalize

SpecNormalize == InitNormalize /\ [][NextNormalize]_vars

\* ------------------------------------------- _to_datetime_utc on its own

\* Raw timestamp values: None, NaN, numbers on both sides of the threshold
\* and far from it, date strings and strings that are no date.
RawTimestamps ==
    {RawNone, RawNaN}
    \cup {RawNum(n) : n \in (-5..50) \cup (9980..10020) \cup {20000, 86400, 1700000000}}
    \cup {RawStr(<<"1","9","7","0","-","0","1","-","0">> \o <<Digits[d + 1]>>) : d \in 1..9}
    \cup {RawStr(<<>>), RawStr(<<"n","o","t"," ","a"," ","d","a","t","e">>), RawStr(<<"1","9","7","0","-","1","3","-","4","5">>)}

InitTimestamp ==
    /\ InitIdle
    /\ call \in {Calling("_to_datetime_utc", v) : v \in RawTimestamps}

CallToDatetime ==
    /\ call.fn = "_to_datetime_utc"
    /\ ~call.returned
    /\ call' = Returning(call, to_datetime_utc(call.arg))
    /\ UNCHANGED <<relevance_vars, cycle_vars>>

NextTimestamp == CallToDatetime

SpecTimestamp == InitTimestamp /\ [][NextTimestamp]_vars

\* ---------------------------------------------------- clean_url on its own

\* Most characters a raw URL is padded with.
MaxPad == 100

Pad(n) == [i \in 1..n |-> "a"]

\* Raw URLs: null, NaN, and every start below followed by every middle below
\* and by padding, so that lengths lie on both sides of 100.
UrlStarts == {<<>>, <<"h","t","t","p","s",":","/","/","w","w","w",".","l","i","n","k","e","d","i","n",".","c","o","m">>, <<"h","t","t","p",":","/","/","x",".","c","o","/">>,
              <<"h","t","t","p","s",":","/","/","d","u","c","k","d","u","c","k","g","o",".","c","o","m","/","l","/","?","u","=">>}
UrlMiddles == {<<>>, <<"/","i","n","/","a">>, <<"?","q","=","d","u","c","k","d","u","c","k","g","o",".","c","o","m">>}

RawUrls ==
    {NONE, NaN}
    \cup {st \o mid \o Pad(n) : st \in UrlStarts, mid \in UrlMiddles, n \in 0..MaxPad}

InitCleanUrl ==
    /\ InitIdle
    /\ call \in {Calling("clean_url", u) : u \in RawUrls}

CallCleanUrl ==
    /\ call.fn = "clean_url"
    /\ ~call.returned
    /\ call' = Returning(call, clean_url(call.arg))
    /\ UNCHANGED <<relevance_vars, cycle_vars>>

NextCleanUrl == CallCleanUrl

SpecCleanUrl == InitCleanUrl /\ [][NextCleanUrl]_vars

\* ------------------------------------------------------- dedupe on its own

\* Rows of one platform and type whose url, author, timestamp and text are
\* drawn from: with and without the separator of the key, missing, and texts
\* that differ only after the part that enters the key.
DedupeUrls == {<<"a">>, <<"a","|","b">>, <<>>, NaN}
DedupeAuthors == {<<"c">>, <<"b","|","c">>, NaN}
DedupeTimestamps == {NaT, Instant(20000, 0)}
DedupeTexts == {<<"x">>, Pad(KeyTextLen) \o <<"1">>, Pad(KeyTextLen) \o <<"2">>, NaN}

DedupeRows ==
    {CanonicalRow(PlatformReddit, TypeSocial, a, u, ts, 0, 0, 0, t, <<>>, <<>>) :
        a \in DedupeAuthors, u \in DedupeUrls, ts \in DedupeTimestamps, t \in DedupeTexts}

InitDedupe ==
    /\ InitIdle
    /\ call \in {Calling("dedupe", <<r1, r2>>) : r1 \in DedupeRows, r2 \in DedupeRows}

CallDedupe ==
    /\ call.fn = "dedupe"
    /\ ~call.returned
    /\ call' = Returning(call, dedupe(call.arg))
    /\ UNCHANGED <<relevance_vars, cycle_vars>>

NextDedupe == CallDedupe

SpecDedupe == InitDedupe /\ [][NextDedupe]_vars

\* -------------------------------------------------------- retry on its own

\* Most attempts retry is called with.
MaxAttempts == 4

\* What fn returns when it does not raise.
FetchedPayloads == {NoFrame, Frame(TwitterColumns, <<Tweet>>)}

\* time.sleep(base_sleep_s * i) with a constant wait
BackoffConstant(base_sleep_s, i) == base_sleep_s

\* the wait after the i-th failed call
Backoff(base_sleep_s, i) == base_sleep_s * i

\* retry(fn, attempts=..., base_sleep_s=...) entered: the loop variable i, the
\* calls of fn made and the waits slept so far
RetryCalling(attempts, base_sleep_s) ==
    [fn |-> "retry", arg |-> [attempts |-> attempts, base_sleep_s |-> base_sleep_s],
     returned |-> FALSE, result |-> <<>>, raised |-> FALSE,
     i |-> 1, calls |-> 0, sleeps |-> <<>>]

InitRetry ==
    /\ InitIdle
    /\ call \in {RetryCalling(n, b) : n \in 0..MaxAttempts, b \in 0..3}

RetryInLoop ==
    /\ call.fn = "retry"
    /\ ~call.returned
    /\ ~call.raised
    /\ call.i <= call.arg.attempts

\* fn() returns: retry returns what it returned
RetryFnReturns ==
    /\ RetryInLoop
    /\ \E payload \in FetchedPayloads :
        call' = [call EXCEPT !.calls = @ + 1, !.returned = TRUE, !.result = payload]
    /\ UNCHANGED <<relevance_vars, cycle_vars>>

\* fn() raises: the except branch, with its sleep unless this was the last
\* attempt, and the loop goes on
RetryFnRaises ==
    /\ RetryInLoop
    /\ call' = [call EXCEPT
                  !.calls = @ + 1,
                  !.sleeps = IF call.i < call.arg.attempts
                             THEN Append(@, Backoff(call.arg.base_sleep_s, call.i))
                             ELSE @,
                  !.i = @ + 1]
    /\ UNCHANGED <<relevance_vars, cycle_vars>>

\* the loop is over: raise RuntimeError
RetryRaises ==
    /\ call.fn = "retry"
    /\ ~call.returned
    /\ ~call.raised
    /\ call.i > call.arg.attempts
    /\ call' = [call EXCEPT !.raised = TRUE]
    /\ UNCHANGED <<relevance_vars, cycle_vars>>

NextRetry ==
    \/ RetryFnReturns
    \/ RetryFnRaises
    \/ RetryRaises

SpecRetry == InitRetry /\ [][NextRetry]_vars

\* ------------------------------------------------ properties: the cycle

\* the identity keys of some rows
Keys(rows) == {DedupeKey(rows[i]) : i \in 1..Len(rows)}

SentimentColumns == {"sentiment_polarity", "sentiment_subjectivity", "sentiment_label"}

\* a row without its sentiment columns
NonSentiment(r) == [c \in DOMAIN r \ SentimentColumns |-> r[c]]

\* existing + incoming of the running cycle, in concatenation order
Concatenated == ConcatExisting(load_existing_combined(before), new_df)

\* the running cycle has merged and saved
Saved == pc = "render"

\* C1: re-ingestion is idempotent: merging the persisted result of a cycle
\* with the same incoming batch again yields as many rows, and the same
\* identity keys, as merging the batch once.
C1_ReingestionIsIdempotent ==
    Saved =>
        LET again == Merged(combined_csv, new_df) IN
        /\ Len(again) = Len(all_df)
        /\ Keys(again) = Keys(all_df)

\* C2: of the rows of existing + incoming that share an identity key, merge
\* keeps exactly one, the first in concatenation order, with the engagement
\* counters that row had: an existing row wins over its re-fetched copy.
C2_FirstOfEachKeyIsKept ==
    Saved =>
        \A i \in 1..Len(Concatenated) :
            ~IsMissing(Concatenated[i].platform) =>
                LET key == DedupeKey(Concatenated[i])
                    first == CHOOSE j \in 1..i :
                                /\ DedupeKey(Concatenated[j]) = key
                                /\ ~IsMissing(Concatenated[j].platform)
                                /\ \A h \in 1..(j - 1) :
                                      \/ DedupeKey(Concatenated[h]) # key
                                      \/ IsMissing(Concatenated[h].platform)
                    kept == {k \in 1..Len(all_df) : DedupeKey(all_df[k]) = key}
                IN  /\ Cardinality(kept) = 1
                    /\ \A k \in kept :
                          NonSentiment(all_df[k]) =
                              NonSentiment(FillRow(Concatenated[first]))

\* C2 happens: a persisted row was fetched again with another like count, and
\* the one row kept for its key has the old count.
C2_Witness ==
    /\ Saved
    /\ \E i \in 1..Len(load_existing_combined(before)), j \in 1..Len(new_df) :
          LET old == load_existing_combined(before)[i] IN
          /\ DedupeKey(old) = DedupeKey(new_df[j])
          /\ old.engagement_likes # new_df[j].engagement_likes
          /\ \E k \in 1..Len(all_df) :
                /\ DedupeKey(all_df[k]) = DedupeKey(old)
                /\ all_df[k].engagement_likes = old.engagement_likes

\* rows in timestamp order, latest first, the rows without timestamp last
SortedDescending(rows) ==
    /\ \A i \in 1..(Len(rows) - 1) :
          (~rows[i].timestamp.nat /\ ~rows[i + 1].timestamp.nat)
              => ~Later(rows[i + 1].timestamp, rows[i].timestamp)
    /\ \A i, j \in 1..Len(rows) :
          (rows[i].timestamp.nat /\ ~rows[j].timestamp.nat) => j < i

\* C3: after every successful cycle the persisted table is ordered by
\* timestamp descending: of two adjacent rows with timestamps the first is not
\* older, and every row without timestamp is after every row with one.
C3_PersistedTableIsSorted ==
    (Saved \/ (pc = "idle" /\ last_run.written /\ last_run.ok))
        => SortedDescending(combined_csv.rows)

\* C3 happens: a cycle whose rows were not in order when concatenated has
\* persisted rows of two different instants and a row without timestamp.
C3_Witness ==
    /\ Saved
    /\ ~SortedDescending(Concatenated)
    /\ \E i, j, k \in 1..Len(combined_csv.rows) :
          /\ i < j /\ j < k
          /\ ~combined_csv.rows[i].timestamp.nat
          /\ ~combined_csv.rows[j].timestamp.nat
          /\ Later(combined_csv.rows[i].timestamp, combined_csv.rows[j].timestamp)
          /\ combined_csv.rows[k].timestamp.nat

\* C4: no persisted row has a null platform or a null type: whatever the
\* existing table and the incoming batch, every row a cycle writes has a
\* platform cell and a type cell that are not empty.
C4_PlatformAndTypeNeverNull ==
    Saved =>
        \A i \in 1..Len(combined_csv.rows) :
            /\ combined_csv.rows[i].platform # <<>>
            /\ combined_csv.rows[i].type # <<>>

\* C5: the table is append-only across cycles: every identity key of a
\* persisted row with a platform is still there after the next successful
\* cycle, on a row whose non-sentiment fields are the ones it had.
C5_AppendOnly ==
    (Saved /\ before.state = "ok") =>
        \A i \in 1..Len(before.rows) :
            before.rows[i].platform # <<>> =>
                \E k \in 1..Len(combined_csv.rows) :
                    /\ DedupeKey(combined_csv.rows[k]) = DedupeKey(before.rows[i])
                    /\ NonSentiment(combined_csv.rows[k]) = NonSentiment(before.rows[i])

\* C6: a source that yields zero rows is a normal input: no cycle fails for
\* want of rows, even when all five sources yield none, and a cycle that some
\* sources gave no rows persists the existing rows and the rows of the others.
C6_ZeroRowSourcesAreNormal ==
    /\ failed_at # "concat"
    /\ (pc = "idle" /\ last_run.written /\ ~last_run.ok) => last_run.error # "concat"
    /\ Saved => \A i \in 1..Len(Concatenated) :
                   ~IsMissing(Concatenated[i].platform)
                       => DedupeKey(Concatenated[i]) \in Keys(all_df)

LoweredText == IF IsMissing(arg_text) THEN <<>> ELSE Lower(arg_text)

HasBrand == Contains(LoweredText, brand_token)
HasExclusion == ContainsAny(LoweredText, exclude_patterns)
HasInclusion == ContainsAny(LoweredText, include_patterns)
HasRepeatedBrand == Count(LoweredText, brand_token) > 1
HasAppWord == ContainsAny(LoweredText, app_words)
HasCompanyWord == ContainsAny(LoweredText, company_words)

\* C8: is_matiks_relevant returns false for every input that does not contain
\* the brand token 'matiks', whatever its case, including empty, None and NaN
\* input and whatever app words, company words or 'matik' phrases it has.
C8_NoBrandIsIrrelevant ==
    (called /\ ~HasBrand) => relevant = FALSE

\* C8 happens: a text with 'matik' and an app word but without 'matiks' was
\* judged irrelevant.
C8_Witness ==
    /\ called
    /\ ~HasBrand
    /\ Contains(LoweredText, <<"m","a","t","i","k">>)
    /\ HasAppWord
    /\ relevant = FALSE

\* C9: is_matiks_relevant returns true for every text that contains at least
\* one inclusion phrase and no exclusion phrase, whatever the case of either.
C9_InclusionWithoutExclusionIsRelevant ==
    (called /\ HasInclusion /\ ~HasExclusion) => relevant = TRUE

\* C9 happens: a text was judged relevant whose only support is an inclusion
\* phrase (one brand token, no app word, no company word), written with
\* capitals.
C9_Witness ==
    /\ called
    /\ HasInclusion
    /\ ~HasExclusion
    /\ ~HasRepeatedBrand
    /\ ~HasAppWord
    /\ ~HasCompanyWord
    /\ arg_text # LoweredText
    /\ relevant = TRUE

\* C10: is_matiks_relevant(text) is true exactly when the lower-cased text
\* contains 'matiks', contains no exclusion phrase, and has an inclusion
\* phrase, or 'matiks' more than once, or an app word, or a company/education
\* word; so an exclusion phrase forces false and a bare single mention is false.
C10_RelevantExactlyWhen ==
    called =>
        (relevant <=> /\ HasBrand
                      /\ ~HasExclusion
                      /\ \/ HasInclusion
                         \/ HasRepeatedBrand
                         \/ HasAppWord
                         \/ HasCompanyWord)

\* C10 happens: a text with an inclusion phrase, a repeated brand token and an
\* exclusion phrase was judged irrelevant.
C10_Witness ==
    /\ called
    /\ HasInclusion
    /\ HasRepeatedBrand
    /\ HasExclusion
    /\ relevant = FALSE

\* ------------------------------------------------ properties: analyze_text

\* The label the rule of the threshold gives a polarity: positive from the
\* threshold up, otherwise negative from minus the threshold down, otherwise
\* neutral.
LabelAgrees(r, t) ==
    /\ r.label = "positive" <=> r.polarity >= t
    /\ r.label = "negative" <=> (~(r.polarity >= t) /\ r.polarity <= -t)
    /\ r.label = "neutral" <=> (~(r.polarity >= t) /\ ~(r.polarity <= -t))

AnalyzeReturned == call.fn = "analyze_text" /\ call.returned

\* The text analyze_text scores is blank: null, NaN, or nothing but whitespace.
BlankArgument ==
    \/ IsMissing(call.arg.text)
    \/ \A i \in 1..Len(call.arg.text) : call.arg.text[i] \in Whitespace

\* C11 as stated: for every text, blank ones included, and every threshold
\* t >= 0, zero included, the returned label agrees with the returned
\* polarity.
C11_LabelAgreesWithPolarity ==
    AnalyzeReturned => LabelAgrees(call.result, call.arg.neutral_threshold)

\* C11 amended: the returned label agrees with the returned polarity for every
\* text that is not blank at every threshold t >= 0, and for blank text at
\* every threshold t > 0.
C11_LabelAgreesUnlessBlankAtZero ==
    (AnalyzeReturned /\ (~BlankArgument \/ call.arg.neutral_threshold > 0))
        => LabelAgrees(call.result, call.arg.neutral_threshold)

\* A text that is not blank comes out at polarity 0 under threshold 0 and is
\* labelled positive.
C11_Witness ==
    /\ AnalyzeReturned
    /\ ~BlankArgument
    /\ call.arg.neutral_threshold = 0
    /\ call.result.polarity = 0
    /\ call.result.label = "positive"

\* C13: whatever the text and whatever base polarity in [-1, 1] the base model
\* delivers, the returned polarity lies in [-1, 1].
C13_PolarityInRange ==
    AnalyzeReturned => (call.result.polarity >= -100 /\ call.result.polarity <= 100)

\* C14: on blank text (empty, null, NaN, whitespace only) analyze_text returns
\* polarity 0, subjectivity 0 and label neutral, and no corrective rule or
\* base score shows in the result.
C14_BlankTextIsNeutralZero ==
    (AnalyzeReturned /\ BlankArgument)
        => call.result = [polarity |-> 0, subjectivity |-> 0, label |-> "neutral"]

\* Whitespace-only text, a base model that would say 1.0, threshold 0.05.
C14_Witness ==
    /\ AnalyzeReturned
    /\ call.arg.text = <<" ","\n","\t">>
    /\ call.arg.blob.polarity = 100
    /\ call.arg.neutral_threshold = DefaultNeutralThreshold
    /\ call.result.label = "neutral"
    /\ call.result.polarity = 0

\* ------------------------------------- properties: scoring and the defaults

\* the sentiment columns of a row
SentimentOf(r) ==
    [polarity |-> r.sentiment_polarity, subjectivity |-> r.sentiment_subjectivity,
     label |-> r.sentiment_label]

\* C12: the sentiment columns of every row of the merged table are what
\* analyze_text gives for that row's text at the threshold (Score), whatever
\* the row's position, whatever the other rows, and however many cycles have
\* scored the row before.
C12_ScoreDependsOnTextAlone ==
    Saved =>
        \A i \in 1..Len(all_df) : SentimentOf(all_df[i]) = Score(all_df[i].text)

\* A second cycle has scored again a row the first cycle persisted: the row
\* is negative, now stands at another position, and has a neighbour that is
\* not negative.
C12_Witness ==
    /\ Saved
    /\ cycles = 2
    /\ before.state = "ok"
    /\ \E i \in 1..Len(all_df), j \in 1..Len(before.rows), k \in 1..Len(all_df) :
        /\ i # j
        /\ all_df[i].text = before.rows[j].text
        /\ all_df[i].sentiment_label = "negative"
        /\ before.rows[j].sentiment_label = "negative"
        /\ all_df[k].sentiment_label # "negative"

\* a row carries the defaults of its type
CarriesDefaults(r) ==
    /\ r.type = TypeReview =>
        /\ r.engagement_likes = 0
        /\ r.engagement_comments = 0
        /\ r.engagement_shares = 0
        /\ r.url = <<>>
    /\ r.type = TypeSocial =>
        /\ r.rating = <<>>
        /\ r.app_version = <<>>

\* C15: every row the normalizers produce carries the defaults of its type
\* (review: engagement 0, 0, 0 and url ''; social: rating '' and app_version
\* ''), whatever the raw row held, and so does every row of the merged and of
\* the persisted table after any number of cycles.
C15_RowsCarryTypeDefaults ==
    /\ \A i \in 1..Len(new_df) : CarriesDefaults(new_df[i])
    /\ \A i \in 1..Len(all_df) : CarriesDefaults(all_df[i])
    /\ \A i \in 1..Len(combined_csv.rows) : CarriesDefaults(combined_csv.rows[i])

\* The second cycle has saved a table with a Google Play review, fetched with
\* a thumbsUpCount and persisted by the first cycle already, next to a social
\* row that has likes.
C15_Witness ==
    /\ Saved
    /\ cycles = 2
    /\ \E i \in 1..Len(new_df) :
        new_df[i].platform = PlatformGooglePlay /\ new_df[i].type = TypeReview
    /\ \E i \in 1..Len(before.rows) :
        before.rows[i].platform = PlatformGooglePlay /\ before.rows[i].type = TypeReview
    /\ \E i, j \in 1..Len(combined_csv.rows) :
        /\ combined_csv.rows[i].platform = PlatformGooglePlay
        /\ combined_csv.rows[i].type = TypeReview
        /\ combined_csv.rows[j].type = TypeSocial
        /\ combined_csv.rows[j].engagement_likes > 0

\* ------------------------------------------------ properties: normalizers

NormalizeReturned == call.fn \in Normalizers /\ call.returned

\* the raw payload is the one forum row of the scenario, url column included
\* or not
ScenarioPayload ==
    /\ call.fn = "normalize_reddit"
    /\ call.arg.rows = <<ScenarioRow>>
    /\ RedditColumns \ {"url"} \subseteq call.arg.columns

\* the one canonical row of the scenario, with that text
ScenarioResult(txt) ==
    /\ ~call.result.raised
    /\ Len(call.result.rows) = 1
    /\ call.result.rows[1].platform = <<"R","e","d","d","i","t">>
    /\ call.result.rows[1].type = <<"s","o","c","i","a","l">>
    /\ call.result.rows[1].text = txt
    /\ call.result.rows[1].timestamp = Instant(1700000000, 0)

MappedFields(fn) ==
    CASE fn = "normalize_reddit" ->
            {<<"author", "author", <<>>>>, <<"url", "url", <<>>>>,
             <<"created_utc", "timestamp", NaT>>, <<"score", "engagement_likes", 0>>,
             <<"num_comments", "engagement_comments", 0>>}
      [] fn = "normalize_twitter" ->
            {<<"username", "author", <<>>>>, <<"url", "url", <<>>>>,
             <<"date", "timestamp", NaT>>, <<"likeCount", "engagement_likes", 0>>,
             <<"replyCount", "engagement_comments", 0>>,
             <<"retweetCount", "engagement_shares", 0>>}
      [] fn = "normalize_linkedin" ->
            {<<"author", "author", <<>>>>, <<"url", "url", <<>>>>,
             <<"timestamp", "timestamp", NaT>>,
             <<"engagement_likes", "engagement_likes", 0>>,
             <<"engagement_comments", "engagement_comments", 0>>}
      [] OTHER ->
            {<<"author", "author", <<>>>>, <<"date", "timestamp", NaT>>,
             <<"review_text", "text", <<>>>>, <<"rating", "rating", <<>>>>,
             <<"version", "app_version", <<>>>>}

\* C17: a missing field never makes a normalizer raise: on every non-empty
\* raw payload, whichever of the mapped columns it lacks, normalization
\* completes, and in every row it gives the field of an absent column holds
\* the default ('' for text, 0 for counts, null for the timestamp).
C17_MissingColumnNeverRaises ==
    (NormalizeReturned /\ ~IsEmptyFrame(call.arg)) =>
        /\ ~call.result.raised
        /\ \A i \in 1..Len(call.result.rows), f \in MappedFields(call.fn) :
            f[1] \notin call.arg.columns => call.result.rows[i][f[2]] = f[3]

\* --------------------------------------------- properties: _to_datetime_utc

\* C18: the timestamp converter is total: a number above 10000 becomes the
\* instant that many seconds after the epoch; any other number is read the
\* generic way (as nanoseconds after the epoch, never as seconds); a string
\* that is a date becomes the midnight UTC of that date; None, NaN and a
\* string that is no date become the null timestamp; every input gives a
\* timestamp or null.
C18_ConverterIsTotal ==
    (call.fn = "_to_datetime_utc" /\ call.returned) =>
        LET v == call.arg
            res == call.result
        IN  /\ res.nat \in BOOLEAN
            /\ v.kind \in {"none", "nan"} => res = NaT
            /\ (v.kind = "num" /\ v.num > 10000) =>
                    (~res.nat /\ res.sec = v.num /\ res.ns = 0)
            /\ (v.kind = "num" /\ v.num <= 10000) =>
                    (~res.nat /\ res.sec = 0 /\ res.ns = v.num)
            /\ \A d \in 1..9 :
                (v.kind = "str" /\ v.str = <<"1","9","7","0","-","0","1","-","0">> \o <<Digits[d + 1]>>) =>
                    (~res.nat /\ res.sec = (d - 1) * 86400 /\ res.ns = 0)
            /\ (v.kind = "str" /\ v.str \in {<<>>, <<"n","o","t"," ","a"," ","d","a","t","e">>, <<"1","9","7","0","-","1","3","-","4","5">>}) =>
                    res = NaT

\* The number 10000 itself has been converted, and came out generic.
C18_Witness ==
    /\ call.fn = "_to_datetime_utc"
    /\ call.returned
    /\ call.arg = RawNum(10000)
    /\ call.result = Instant(0, 10000)

\* ----------------------------------------------------- properties: clean_url

CleanUrlReturned == call.fn = "clean_url" /\ call.returned

\* the raw URL is a str, and has the property
IsUrl == ~IsMissing(call.arg)
IsLong == IsUrl /\ Len(call.arg) > 100
IsCanonical == IsUrl /\ StartsWith(call.arg, <<"h","t","t","p","s",":","/","/","w","w","w",".","l","i","n","k","e","d","i","n",".","c","o","m">>)
IsWrapper == IsUrl /\ Contains(call.arg, <<"d","u","c","k","d","u","c","k","g","o",".","c","o","m">>)
IsReplaced == call.result = <<"h","t","t","p","s",":","/","/","w","w","w",".","l","i","n","k","e","d","i","n",".","c","o","m","/">>

\* C19 as stated: every raw URL longer than 100 characters is replaced by the
\* placeholder, so that no cleaned url is longer than 100 characters, and
\* every URL containing 'duckduckgo.com' is replaced by the placeholder.
C19_EveryLongUrlIsReplaced ==
    CleanUrlReturned =>
        /\ IsLong => IsReplaced
        /\ Len(call.result) <= 100
        /\ IsWrapper => IsReplaced

\* C19 amended: every raw URL longer than 100 characters that does not start
\* with 'https://www.linkedin.com' is replaced by the placeholder, so that a
\* cleaned url longer than 100 characters is a raw URL with that start passed
\* through, and every URL containing 'duckduckgo.com' is replaced by the
\* placeholder.
C19_LongUrlIsReplacedUnlessCanonical ==
    CleanUrlReturned =>
        /\ (IsLong /\ ~IsCanonical) => IsReplaced
        /\ Len(call.result) > 100 => (IsCanonical /\ call.result = call.arg)
        /\ IsWrapper => IsReplaced

\* A raw URL of 101 characters that is neither a LinkedIn URL nor a wrapper
\* has been replaced.
C19_Witness ==
    /\ CleanUrlReturned
    /\ IsUrl
    /\ Len(call.arg) = 101
    /\ ~IsCanonical
    /\ ~IsWrapper
    /\ IsReplaced

\* what C20 says of null and empty URLs, and that cleaning again changes
\* nothing
CleanUrlIsIdempotent ==
    /\ clean_url(call.result) = call.result
    /\ (IsMissing(call.arg) \/ call.arg = <<>>) => call.result = <<>>

\* C20 as stated: every URL that starts with 'https://www.linkedin.com'
\* passes through unchanged, whatever its length and whatever else it
\* contains; cleaning is idempotent; null and empty URLs become ''.
C20_CanonicalAlwaysPasses ==
    CleanUrlReturned =>
        /\ IsCanonical => call.result = call.arg
        /\ CleanUrlIsIdempotent

\* C20 amended: every URL that starts with 'https://www.linkedin.com' and does
\* not contain 'duckduckgo.com' passes through unchanged, whatever its
\* length; cleaning is idempotent; null and empty URLs become ''.
C20_CanonicalPassesUnlessWrapper ==
    CleanUrlReturned =>
        /\ (IsCanonical /\ ~IsWrapper) => call.result = call.arg
        /\ CleanUrlIsIdempotent

\* A LinkedIn URL longer than 100 characters has passed through unchanged.
C20_Witness ==
    /\ CleanUrlReturned
    /\ IsCanonical
    /\ ~IsWrapper
    /\ Len(call.arg) > 100
    /\ call.result = call.arg

\* ------------------------------------------------------- properties: dedupe

\* two rows agree on the six components of the identity, a missing url,
\* author, timestamp or text counting as empty
SameComponents(r1, r2) ==
    /\ r1.platform = r2.platform
    /\ r1.type = r2.type
    /\ FillNa(r1.url, <<>>) = FillNa(r2.url, <<>>)
    /\ FillNa(r1.author, <<>>) = FillNa(r2.author, <<>>)
    /\ r1.timestamp = r2.timestamp
    /\ Slice(FillNa(r1.text, <<>>), 200) = Slice(FillNa(r2.text, <<>>), 200)

\* C21: two rows receive the same identity key if and only if they agree on
\* platform, type, url, author, timestamp and the first 200 characters of
\* text, so dedupe never removes a row that differs from every earlier row in
\* one of these, also when url, author or text contain '|'.
C21_SameKeyIffSameComponents ==
    (call.fn = "dedupe" /\ call.returned) =>
        LET r1 == call.arg[1]
            r2 == call.arg[2]
        IN  /\ (DedupeKey(r1) = DedupeKey(r2)) <=> SameComponents(r1, r2)
            /\ ~SameComponents(r1, r2) => call.result = call.arg

\* ------------------------------------- properties: the corrective rules

\* the text analyze_text works on, in lower case
ArgLower == IF IsMissing(call.arg.text) THEN <<>> ELSE Lower(Strip(call.arg.text))

\* the rules that fire on it: Hindi words of one kind only (rule 1), a
\* positive-context signal (rule 2), a negative-complaint phrase (rule 3)
HindiPositiveFires ==
    ContainsAny(ArgLower, hindi_positive_words) /\ ~ContainsAny(ArgLower, hindi_negative_words)
HindiNegativeFires ==
    ContainsAny(ArgLower, hindi_negative_words) /\ ~ContainsAny(ArgLower, hindi_positive_words)
PositiveFires ==
    \/ ContainsAny(ArgLower, positive_contexts)
    \/ Contains(ArgLower, <<"c","r","a","z","y">>) /\ ContainsAny(ArgLower, crazy_companions)
    \/ Contains(ArgLower, <<"c","o","m","p","a","r","i","n","g">>) /\ ContainsAny(ArgLower, comparing_companions)
    \/ Contains(ArgLower, <<"a","d","d","i","c","t","i","v","e">>) /\ ContainsAny(ArgLower, addictive_companions)
    \/ ContainsAny(ArgLower, achievement_patterns)
NegativeFires == ContainsAny(ArgLower, negative_patterns)

\* C22: whenever a negative-complaint phrase occurs in the text, the polarity
\* returned is at most -0.3 and the label at the default threshold is
\* negative, whatever the base polarity and whichever other rules fire.
C22_NegativePhraseWins ==
    (AnalyzeReturned /\ NegativeFires) =>
        /\ call.result.polarity <= -30
        /\ call.arg.neutral_threshold = 5 => call.result.label = "negative"

\* A text with a Hindi positive word, a positive context and a negative
\* phrase, at base polarity 1.0 and the default threshold.
C22_Witness ==
    /\ AnalyzeReturned
    /\ NegativeFires /\ PositiveFires /\ HindiPositiveFires
    /\ call.arg.blob.polarity = 100
    /\ call.arg.neutral_threshold = 5
    /\ call.result.label = "negative"

\* C23: whenever a positive-context signal fires and no negative-complaint
\* phrase occurs, the polarity returned is at least +0.3 and the label at the
\* default threshold is positive, also at base polarity -1 and with Hindi
\* negative words counted by rule 1.
C23_PositiveContextFloor ==
    (AnalyzeReturned /\ PositiveFires /\ ~NegativeFires) =>
        /\ call.result.polarity >= 30
        /\ call.arg.neutral_threshold = 5 => call.result.label = "positive"

\* A text with a Hindi negative word and a positive context, no negative
\* phrase, at base polarity -1.0 and the default threshold.
C23_Witness ==
    /\ AnalyzeReturned
    /\ PositiveFires /\ ~NegativeFires /\ HindiNegativeFires
    /\ call.arg.blob.polarity = -100
    /\ call.arg.neutral_threshold = 5
    /\ call.result.polarity = 30
    /\ call.result.label = "positive"

\* each rule on a polarity p, when it fires
AfterRule1(p) ==
    IF HindiPositiveFires THEN Max(p + 30, 20)
    ELSE IF HindiNegativeFires THEN Min(p - 30, -20) ELSE p
AfterRule2(p) == IF PositiveFires THEN Max(p + 50, 30) ELSE p
AfterRule3(p) == IF NegativeFires THEN Min(p - 40, -30) ELSE p

\* an earlier and a later rule both fire
TwoRulesFire ==
    \/ (HindiPositiveFires \/ HindiNegativeFires) /\ (PositiveFires \/ NegativeFires)
    \/ PositiveFires /\ NegativeFires

\* C24 as stated: the adjustments do not compound: when an earlier and a
\* later rule both fire, the polarity returned is what the last rule that
\* fires gives when applied to the base polarity alone.
C24_LaterRuleAloneDecides ==
    (AnalyzeReturned /\ TwoRulesFire) =>
        call.result.polarity =
            IF NegativeFires THEN AfterRule3(call.arg.blob.polarity)
            ELSE AfterRule2(call.arg.blob.polarity)

\* C24 amended: the adjustments compound: when an earlier and a later rule
\* both fire, each is applied to the polarity the rules before it have left,
\* in the order rule 1, rule 2, rule 3.
C24_RulesCompound ==
    (AnalyzeReturned /\ TwoRulesFire) =>
        call.result.polarity = AfterRule3(AfterRule2(AfterRule1(call.arg.blob.polarity)))

\* Hindi positive words and a positive context at base polarity 0: the
\* polarity returned is 0.8, both shifts.
C24_Witness ==
    /\ AnalyzeReturned
    /\ HindiPositiveFires /\ PositiveFires /\ ~NegativeFires
    /\ call.arg.blob.polarity = 0
    /\ call.result.polarity = 80

\* -------------------------------------------------------- properties: retry

\* C25: retry(fn, attempts=n) calls fn at most n times; it returns what the
\* first call that succeeds returned and calls no more; after the i-th failed
\* call with i < n it has waited base_sleep_s * i, and it does not wait after
\* the n-th; when all n calls have failed, and when n = 0, it raises instead
\* of returning.
C25_RetryPolicy ==
    call.fn = "retry" =>
        LET n == call.arg.attempts
            b == call.arg.base_sleep_s
            failed == IF call.returned THEN call.calls - 1 ELSE call.calls
        IN  /\ call.calls <= n
            /\ call.returned => (call.calls >= 1 /\ call.result \in FetchedPayloads)
            /\ call.returned => call.i = call.calls
            /\ Len(call.sleeps) = (IF failed < n THEN failed ELSE IF n = 0 THEN 0 ELSE n - 1)
            /\ \A k \in 1..Len(call.sleeps) : call.sleeps[k] = b * k
            /\ call.raised => (~call.returned /\ failed = n)
            /\ (failed = n) => ~call.returned
            /\ (failed = n /\ ~call.raised) => ENABLED RetryRaises

\* The third of four attempts has returned, after waits of 2 and 4.
C25_Witness ==
    /\ call.fn = "retry"
    /\ call.arg.attempts = 4
    /\ call.returned
    /\ call.calls = 3
    /\ call.sleeps = <<2, 4>>

\* ---------------------------------------- properties: the order of the cycle

\* the merge in the order of the design: dedupe, then score
DedupedThenScored ==
    fillna(sort_values(add_sentiment_columns(dedupe(Concatenated))))

\* C26: scoring the concatenated table and then deduplicating, as the cycle
\* does, gives the rows, the order and the sentiment fields that
\* deduplicating and then scoring gives, and every row of the table the cycle
\* has written has the sentiment fields analyze_text gives for the text
\* written.
C26_ScoreAndDedupeCommute ==
    Saved =>
        /\ all_df = DedupedThenScored
        /\ combined_csv.rows = to_csv(DedupedThenScored)
        /\ \A i \in 1..Len(combined_csv.rows) :
            SentimentOf(combined_csv.rows[i]) = Score(combined_csv.rows[i].text)

\* The second cycle has merged a table with a batch that repeats a row of it,
\* and a row that is not neutral is in the result.
C26_Witness ==
    /\ Saved
    /\ cycles = 2
    /\ before.state = "ok"
    /\ Len(before.rows) > 0
    /\ Len(all_df) < Len(Concatenated)
    /\ Keys(before.rows) \cap Keys(new_df) # {}
    /\ \E i \in 1..Len(all_df) : all_df[i].sentiment_label # "neutral"

\* ------------------------------------------- properties: one row per raw row

\* a text field of a raw row, empty when the payload has no such column
RawField(df, r, col) == IF col \in df.columns THEN FillNa(r[col], <<>>) ELSE <<>>

\* the text of a raw row that the gate of the normalizer looks at and the
\* output row carries
RawText(fn, df, r) ==
    CASE fn = "normalize_reddit" ->
            Strip(RawField(df, r, "title") \o <<"\n">> \o RawField(df, r, "content"))
      [] fn \in {"normalize_twitter", "normalize_linkedin"} -> RawField(df, r, "content")
      [] OTHER -> RawField(df, r, "review_text")

RawAuthor(fn, r) ==
    IF fn = "normalize_twitter" THEN FillNa(r.username, <<>>) ELSE FillNa(r.author, <<>>)

RawUrl(fn, r) ==
    CASE fn \in {"normalize_reddit", "normalize_twitter"} -> FillNa(r.url, <<>>)
      [] fn = "normalize_linkedin" -> clean_url(r.url)
      [] OTHER -> <<>>

RawTimestamp(fn, r) ==
    CASE fn = "normalize_reddit" -> r.created_utc
      [] fn = "normalize_linkedin" -> r.timestamp
      [] OTHER -> r.date

\* a raw row passes the gate: the relevance filter for the social sources, no
\* gate for the review sources
PassesGate(fn, df, r) ==
    fn \in {"normalize_google_play", "normalize_apple_store"}
    \/ is_matiks_relevant(RawText(fn, df, r))

\* the raw rows that pass, in input order
RECURSIVE Passing(_, _, _)
Passing(fn, df, rows) ==
    IF rows = <<>> THEN <<>>
    ELSE (IF PassesGate(fn, df, Head(rows)) THEN <<Head(rows)>> ELSE <<>>)
         \o Passing(fn, df, Tail(rows))

\* the raw rows of a payload: a frame without columns holds none
RawRows(df) == IF IsEmptyFrame(df) THEN <<>> ELSE df.rows

\* C27: a normalizer that completes gives exactly one canonical row per raw
\* row that passes its gate, in input order, each with the text, author, url
\* and timestamp of that same raw row; the review normalizers have no gate and
\* give as many rows as they get.
C27_OneRowPerPassingRawRow ==
    (NormalizeReturned /\ ~call.result.raised) =>
        LET fn == call.fn
            passing == Passing(fn, call.arg, RawRows(call.arg))
            out == call.result.rows
        IN  /\ Len(out) = Len(passing)
            /\ \A k \in 1..Len(out) :
                /\ out[k].text = RawText(fn, call.arg, passing[k])
                /\ out[k].author = RawAuthor(fn, passing[k])
                /\ out[k].timestamp = to_datetime_utc(RawTimestamp(fn, passing[k]))
                /\ out[k].url = RawUrl(fn, passing[k])
            /\ fn \in {"normalize_google_play", "normalize_apple_store"}
                => Len(out) = Len(RawRows(call.arg))

\* normalize_twitter has dropped the first of three rows and kept the other
\* two.
C27_Witness ==
    /\ NormalizeReturned
    /\ call.fn = "normalize_twitter"
    /\ ~call.result.raised
    /\ Len(call.arg.rows) = 3
    /\ Len(call.result.rows) = 2
    /\ call.result.rows[1].author = <<"a","n","n">>
    /\ call.result.rows[2].author = <<"b","e","a">>

\* ------------------------------------------------ properties: failed cycles

\* the steps of a cycle that come before all_df.to_csv
StepsBeforeSave == {"fetch", "normalize", "concat"}

\* C28 as stated: a failed cycle does not change the persisted table: when
\* the except branch is entered, the file is as it was when the cycle began.
C28_FailedCycleKeepsTable ==
    pc = "except" => combined_csv = before

\* C28: a cycle that fails before the table is written does not change the
\* persisted table: when the except branch is entered from a fetch, a
\* normalizer or the concatenation, the file is as it was when the cycle
\* began; a failure of to_csv leaves it as it was or truncated, and a failure
\* of the dashboard rendering leaves the table this cycle wrote.
C28_FailureBeforeSaveKeepsTable ==
    pc = "except" =>
        /\ failed_at # "none"
        /\ failed_at \in StepsBeforeSave => combined_csv = before
        /\ failed_at = "save" => combined_csv \in {before, TableFile(<<>>)}
        /\ failed_at = "render" => combined_csv.state = "ok"

\* a normalizer has raised in the second cycle, over the table the first
\* cycle wrote.
C28_Witness ==
    /\ pc = "except"
    /\ failed_at = "normalize"
    /\ cycles = 2
    /\ before.state = "ok"
    /\ Len(before.rows) > 0
    /\ combined_csv = before

\* what run_once returns when some payloads are None or empty: no row of such
\* a source, and the rows of the others whenever no normalizer raises and one
\* of them gives a row
EmptyPayloadsGoOn ==
    \A reddit_df \in RedditFetches, twitter_df \in TwitterFetches,
       linkedin_df \in LinkedInFetches, google_df \in GooglePlayFetches,
       apple_df \in AppleFetches :
        LET res == RunOnceResult(reddit_df, twitter_df, linkedin_df, google_df, apple_df)
            payloads == <<reddit_df, twitter_df, linkedin_df, google_df, apple_df>>
            platforms == <<PlatformReddit, PlatformTwitter, PlatformLinkedIn,
                           PlatformGooglePlay, PlatformAppleStore>>
            others == <<normalize_reddit(reddit_df), normalize_twitter(twitter_df),
                        normalize_linkedin(linkedin_df), normalize_google_play(google_df),
                        normalize_apple_store(apple_df)>>
        IN  \A s \in 1..5 :
                IsEmptyFrame(payloads[s]) =>
                    /\ \A i \in 1..Len(res.rows) : res.rows[i].platform # platforms[s]
                    /\ ((\A j \in 1..5 : ~others[j].raised)
                        /\ (\E j \in 1..5 : others[j].rows # <<>>))
                       => res.raised = "none" /\ res.rows # <<>>

C30_UnreadableTableIsEmptyHistory ==
    (Saved /\ before.state \in {"missing", "unreadable"}) =>
        /\ failed_at = "none"
        /\ Len(new_df) >= 1
        /\ Len(all_df) >= 1
        /\ Keys(all_df) = Keys(new_df)
        /\ Len(all_df) = Cardinality(Keys(new_df))
        /\ combined_csv = TableFile(to_csv(all_df))

\* a cycle has saved over a file it could not read.
C30_Witness ==
    /\ Saved
    /\ before = UnreadableFile
    /\ combined_csv.state = "ok"
    /\ Len(combined_csv.rows) >= 2

====
